---- MODULE Spec2Model ----
(***************************************************************************)
(* Model of the MAD_Podolsk dashboard front end: the resilient fetcher     *)
(* (buildHttpError, isRetryableError, withRetry), the DataManager caches   *)
(* (fetchData, fetchDailyReport, getCached) and the month view of the      *)
(* UIManager (loadMonthData, applyData, showLoadingState, handleLoadError),*)
(* and the aggregation of line items (buildCategories, calculateMetrics,   *)
(* calculateContractMetrics, sortWorks).                                   *)
(*                                                                         *)
(* These specifications share the module:                                  *)
(*   Spec       the month view: overlapping loads, the cache and the view  *)
(*              (FairSpec adds that requests settle and timers fire);      *)
(*   SpecData   the DataManager called through its own interface;          *)
(*   SpecRetry  one withRetry call for every retry budget and outcome      *)
(*              sequence (FairSpecRetry adds the fairness of the event     *)
(*              loop: a settled request and an elapsed timer are handled); *)
(*   SpecErr    the error classification as a pure function of its input;  *)
(*   SpecCategories  buildCategories applied to every list of line items;  *)
(*   SpecMetrics     calculateMetrics and calculateContractMetrics applied *)
(*              to every report;                                           *)
(*   SpecSort   the work list sorted by each column (sortWorks);           *)
(*   SpecRender the rendering inside applyData, call by call;              *)
(*   SpecDaily  the daily view: switchViewMode, initDaySelect and          *)
(*              loadDailyData with overlapping requests;                   *)
(*   SpecBreakdown   the normalization of a work-breakdown response;       *)
(*   SpecModal  the drill-down modal opened for one work after another.    *)
(***************************************************************************)
EXTENDS Integers, Sequences, FiniteSets, TLC

VARIABLES
    cache,              \* DataManager.cache: month key -> payload or Absent
    dailyCache,         \* DataManager.dailyCache: day key -> payload or Absent
    currentData,        \* DataManager.currentData
    calls,              \* the fetchData / fetchDailyReport calls still pending
    issued,             \* number of loadMonthData / fetch calls made so far
    settled,            \* the call that settled last, with what its caller got
    completedOk,        \* <<kind, key, fromCache>> of the unforced calls that resolved
    selectedMonth,      \* uiStore selected month (UIManager.selectedMonthIso)
    groupedCategories,  \* UIManager.groupedCategories (category keys, in order)
    activeCategoryKey,  \* UIManager.activeCategoryKey
    viewPhase,          \* what the month view shows: init, loading, data, error
    renderedData,       \* the report whose rendering is in the DOM, if any
    announcement,       \* last message given to UIManager.announce
    retry,              \* the frame of one withRetry call (SpecRetry)
    retryHist,          \* outcomes of the attempts of that call, in order
    classified,         \* last error built and its classification (SpecErr)
    items,              \* the line items given to buildCategories / sortWorks
    builtCategories,    \* what buildCategories(items) returned
    workSort,           \* UIManager.workSort.column
    sortedWorks,        \* the array after sortWorks
    report,             \* the report given to calculateMetrics / calculateContractMetrics
    metrics,            \* what calculateMetrics(report) returned
    contractMetrics,    \* what calculateContractMetrics(report) returned
    applied,            \* the function applied to the input, "none" before
    render,             \* applyData's rendering: position, stack depth, work list
    viewMode,           \* uiStore view mode: monthly or daily
    dayOptionsLoaded,   \* UIManager.dayOptionsLoaded
    selectedDay,        \* uiStore selected day
    selectedDayIso,     \* UIManager.selectedDayIso, set by loadDailyData
    daySelect,          \* elements.daySelect: its value and whether it is disabled
    availableDays,      \* uiStore available days (ISO days, most recent first)
    dailyView,          \* what the daily view shows, and the report rendered in it
    dayTasks,           \* initDaySelect / loadDailyData calls waiting for their fetch
    userOps,            \* number of clicks and day changes handled so far
    lastSwitch,         \* the last switchViewMode call: its mode, whether it returned early
    modal,              \* the drill-down modal: title, visibility, mode, toast
    modalRows,          \* UIManager.dailyRevenue in work mode: the rows the modal lists
    modalTasks,         \* openWorkModal calls waiting for their response
    opens               \* number of openWorkModal calls made so far

vars == <<cache, dailyCache, currentData, calls, issued, settled, completedOk,
          selectedMonth, groupedCategories,
          activeCategoryKey, viewPhase, renderedData, announcement,
          retry, retryHist, classified,
          items, builtCategories, workSort, sortedWorks, report, metrics,
          contractMetrics, applied, render,
          viewMode, dayOptionsLoaded, selectedDay, selectedDayIso, daySelect,
          availableDays, dailyView, dayTasks, userOps, lastSwitch,
          modal, modalRows, modalTasks, opens>>

modalVars == <<modal, modalRows, modalTasks, opens>>

dailyVars == <<viewMode, dayOptionsLoaded, selectedDay, selectedDayIso, daySelect,
               availableDays, dailyView, dayTasks, userOps, lastSwitch>>

uiVars == <<render, dailyVars, modalVars>>

aggVars == <<items, builtCategories, workSort, sortedWorks, report, metrics,
             contractMetrics, applied>>

dashVars == <<cache, dailyCache, currentData, calls, issued, settled, completedOk,
              selectedMonth, groupedCategories,
              activeCategoryKey, viewPhase, renderedData, announcement>>

----------------------------------------------------------------------------
(* Bounds of the model *)

MaxCalls == 3           \* loadMonthData calls made in one behaviour of Spec
MaxFetches == 2         \* DataManager calls made in one behaviour of SpecData
MaxVer == 2             \* versions of a report the server may answer with
MaxRetries == 3         \* largest retry budget explored by SpecRetry
MaxLoads == 2           \* loadMonthData calls made in one behaviour of FairSpec
MaxItems == 2           \* longest list of line items given to buildCategories
MaxWorks == 3           \* longest list of works given to sortWorks
MaxStack == 3           \* nested calls the engine allows before a RangeError
MaxUserOps == 4         \* clicks and day changes in one behaviour of SpecDaily
MaxRows == 2            \* longest work-breakdown response given to the normalization
MaxOpens == 3           \* openWorkModal calls made in one behaviour of SpecModal

(* JavaScript null / undefined where a key or a label is expected *)
None == "none"

----------------------------------------------------------------------------
(* Strings that the code inspects are sequences of characters *)

UpperChars == <<"A", "B", "C", "D", "E", "F", "G", "H", "I", "J", "K", "L", "M",
                "N", "O", "P", "Q", "R", "S", "T", "U", "V", "W", "X", "Y", "Z">>
LowerChars == <<"a", "b", "c", "d", "e", "f", "g", "h", "i", "j", "k", "l", "m",
                "n", "o", "p", "q", "r", "s", "t", "u", "v", "w", "x", "y", "z">>
DigitChars == <<"0", "1", "2", "3", "4", "5", "6", "7", "8", "9">>

(* Cyrillic letters: the character U+04xx is written "u04xx" (capital    *)
(* letters U+0410..U+042F, small letters U+0430..U+044F).                 *)
CyrillicUpperChars ==
    <<"u0410", "u0411", "u0412", "u0413", "u0414", "u0415", "u0416",
      "u0417", "u0418", "u0419", "u041a", "u041b", "u041c", "u041d",
      "u041e", "u041f", "u0420", "u0421", "u0422", "u0423", "u0424",
      "u0425", "u0426", "u0427", "u0428", "u0429", "u042a", "u042b",
      "u042c", "u042d", "u042e", "u042f">>
CyrillicLowerChars ==
    <<"u0430", "u0431", "u0432", "u0433", "u0434", "u0435", "u0436",
      "u0437", "u0438", "u0439", "u043a", "u043b", "u043c", "u043d",
      "u043e", "u043f", "u0440", "u0441", "u0442", "u0443", "u0444",
      "u0445", "u0446", "u0447", "u0448", "u0449", "u044a", "u044b",
      "u044c", "u044d", "u044e", "u044f">>

UpperCase == UpperChars \o CyrillicUpperChars
LowerCase == LowerChars \o CyrillicLowerChars

toLowerCase(s) ==
    [i \in 1..Len(s) |->
        IF \E j \in 1..Len(UpperCase) : UpperCase[j] = s[i]
        THEN LowerCase[CHOOSE j \in 1..Len(UpperCase) : UpperCase[j] = s[i]]
        ELSE s[i]]

(* String.prototype.trim for strings whose only white space is " " *)
trim(s) ==
    LET black == { i \in 1..Len(s) : s[i] # " " }
    IN  IF black = {} THEN <<>>
        ELSE SubSeq(s, CHOOSE i \in black : \A j \in black : i <= j,
                       CHOOSE i \in black : \A j \in black : j <= i)

includes(s, t) ==
    \E i \in 0..(Len(s) - Len(t)) : SubSeq(s, i + 1, i + Len(t)) = t

(* "HTTP " + response.status, for a three-digit status *)
HttpMessage(status) ==
    <<"H", "T", "T", "P", " ">> \o
    <<DigitChars[(status \div 100) + 1],
      DigitChars[((status \div 10) % 10) + 1],
      DigitChars[(status % 10) + 1]>>

----------------------------------------------------------------------------
(* api.js: error classification *)

RETRYABLE_STATUS_CODES == {408, 425, 429, 500, 502, 503, 504}

(* Every non-2xx status a response can carry *)
HttpStatuses == (100..599) \ (200..299)

(* An Error object: name, message and the optional retryable property *)
buildHttpError_5xx(status) ==
    [name |-> "Error", message |-> HttpMessage(status), status |-> status,
     retryable |-> IF status \in {408, 425, 429} \cup ((500..599) \ {501})
                   THEN "true" ELSE "false"]

buildHttpError(status) ==
    [name |-> "Error", message |-> HttpMessage(status), status |-> status,
     retryable |-> IF status \in RETRYABLE_STATUS_CODES THEN "true" ELSE "false"]

(* No error object (undefined / null) *)
NoError ==
    [name |-> "none", message |-> <<>>, status |-> 0, retryable |-> "undefined"]

(* A rejection of fetch() itself: no response, no retryable property *)
TransportError(name, message) ==
    [name |-> name, message |-> message, status |-> 0, retryable |-> "undefined"]

isRetryableError(error) ==
    IF error = NoError THEN FALSE
    ELSE IF error.retryable = "true" THEN TRUE
    ELSE IF error.retryable = "false" THEN FALSE
    ELSE LET message == toLowerCase(error.message) IN
            \/ error.name = "TypeError"
            \/ includes(message, <<"n", "e", "t", "w", "o", "r", "k">>)
            \/ includes(message, <<"t", "i", "m", "e", "o", "u", "t">>)
            \/ includes(message, <<"t", "i", "m", "e", "d", " ", "o", "u", "t">>)
            \/ includes(message, <<"c", "o", "n", "n", "e", "c", "t", "i", "o", "n">>)

(* Names and messages with which a transport failure reaches the page *)
TransportNames == {"TypeError", "AbortError", "TimeoutError", "Error"}

TransportMessages ==
    { <<>>,
      <<"F", "a", "i", "l", "e", "d", " ", "t", "o", " ", "f", "e", "t", "c", "h">>,
      <<"L", "o", "a", "d", " ", "f", "a", "i", "l", "e", "d">>,
      <<"N", "e", "t", "w", "o", "r", "k", "E", "r", "r", "o", "r">>,
      <<"T", "h", "e", " ", "u", "s", "e", "r", " ", "a", "b", "o", "r", "t", "e", "d",
        " ", "a", " ", "r", "e", "q", "u", "e", "s", "t", ".">>,
      <<"T", "h", "e", " ", "o", "p", "e", "r", "a", "t", "i", "o", "n", " ",
        "t", "i", "m", "e", "d", " ", "o", "u", "t", ".">>,
      <<"R", "e", "q", "u", "e", "s", "t", " ", "T", "i", "m", "e", "o", "u", "t">>,
      <<"C", "o", "n", "n", "e", "c", "t", "i", "o", "n", " ", "r", "e", "s", "e", "t">> }

TransportErrors ==
    { TransportError(n, m) : n \in TransportNames, m \in TransportMessages }

----------------------------------------------------------------------------
(* Payloads.  A report is identified by the key it was requested for and   *)
(* the version of the server's data it carries; the other records stand    *)
(* for JSON null, for no value (undefined / null in the page), for an      *)
(* absent Map entry and for a 2xx body that is not JSON.                   *)

Report(key, ver) == [key |-> key, ver |-> ver]
NullPayload == [key |-> "null", ver |-> 0]
NoData == [key |-> "none", ver |-> 0]
Absent == [key |-> "absent", ver |-> 0]
Unparsable == [key |-> "unparsable", ver |-> 0]

(* JavaScript truthiness of a payload-or-null value *)
Truthy(p) == p \notin {NullPayload, NoData, Absent}

----------------------------------------------------------------------------
(* api.js: withRetry.  A frame holds the locals of one call. *)

RETRIES_DEFAULT == 1

StartRetry(retries) ==
    [retries |-> retries, attempt |-> 0, pc |-> "request", lastError |-> NoError,
     requests |-> 1, waits |-> 0, value |-> NoData]

IdleRetry ==
    [retries |-> 0, attempt |-> 0, pc |-> "idle", lastError |-> NoError,
     requests |-> 0, waits |-> 0, value |-> NoData]

(* return await requestFn() *)
withRetryOnSuccess(w, value) ==
    [w EXCEPT !.pc = "returned", !.value = value]

(* catch (error): lastError = error; break or wait(delayMs) *)
withRetryOnError_offByOne(w, error) ==
    IF w.attempt + 1 >= w.retries \/ ~isRetryableError(error)
    THEN [w EXCEPT !.lastError = error, !.pc = "thrown"]
    ELSE [w EXCEPT !.lastError = error, !.pc = "wait", !.waits = @ + 1]

withRetryOnError_noBudget(w, error) ==
    IF ~isRetryableError(error)
    THEN [w EXCEPT !.lastError = error, !.pc = "thrown"]
    ELSE [w EXCEPT !.lastError = error, !.pc = "wait", !.waits = @ + 1]

withRetryOnError_retryAll(w, error) ==
    IF w.attempt = w.retries
    THEN [w EXCEPT !.lastError = error, !.pc = "thrown"]
    ELSE [w EXCEPT !.lastError = error, !.pc = "wait", !.waits = @ + 1]

withRetryOnError(w, error) ==
    IF w.attempt = w.retries \/ ~isRetryableError(error)
    THEN [w EXCEPT !.lastError = error, !.pc = "thrown"]
    ELSE [w EXCEPT !.lastError = error, !.pc = "wait", !.waits = @ + 1]

(* the timer of wait(delayMs) fires: attempt += 1 and requestFn() again *)
withRetryOnWaitElapsed(w) ==
    [w EXCEPT !.attempt = @ + 1, !.pc = "request", !.requests = @ + 1]

----------------------------------------------------------------------------
(* The dashboard: keys, server answers, DataManager *)

Months == {"2025-01", "2025-02"}
Days == {"2025-02-10"}

(* What the server may answer a request for a key with (HTTP 200 bodies    *)
(* that parse): some version of that key's report, or JSON null.           *)
ServerPayloads(key) == { Report(key, v) : v \in 1..MaxVer } \cup {NullPayload}

(* Failures a request of the dashboard meets *)
NetErrors ==
    { buildHttpError(503), buildHttpError(404),
      TransportError("TypeError",
          <<"F", "a", "i", "l", "e", "d", " ", "t", "o", " ", "f", "e", "t", "c", "h">>) }

(* response.json() rejects: thrown after withRetry has returned *)
JsonSyntaxError ==
    [name |-> "SyntaxError", message |-> <<"J", "S", "O", "N">>, status |-> 0,
     retryable |-> "undefined"]

(* throw new Error("Не указан месяц ...") / ("Не указана дата ...") *)
MissingKeyError ==
    [name |-> "Error", message |-> <<"n", "o", " ", "k", "e", "y">>, status |-> 0,
     retryable |-> "undefined"]

(* Map.has(key) and Map.get(key) *)
CacheHas(store, key) == key \in DOMAIN store /\ store[key] # Absent
CacheGet(store, key) == IF CacheHas(store, key) THEN store[key] ELSE NoData

(* getCached(monthIso): this.cache.get(monthIso) || null *)
getCached(monthIso) ==
    IF Truthy(CacheGet(cache, monthIso)) THEN CacheGet(cache, monthIso) ELSE NoData

(* The synchronous part of fetchData / fetchDailyReport, up to the first   *)
(* await: the call as it stands when control returns to the caller.        *)
fetchStart_ignoreCache(store, kind, key, force, caller, cached) ==
    LET base == [kind |-> kind, key |-> key, force |-> force, caller |-> caller,
                 cached |-> cached, w |-> IdleRetry, outcome |-> "pending",
                 data |-> NoData, fromCache |-> FALSE, error |-> NoError]
    IN  IF key = None
        THEN [base EXCEPT !.outcome = "rejected", !.error = MissingKeyError]
        ELSE [base EXCEPT !.w = StartRetry(RETRIES_DEFAULT)]

fetchStart(store, kind, key, force, caller, cached) ==
    LET base == [kind |-> kind, key |-> key, force |-> force, caller |-> caller,
                 cached |-> cached, w |-> IdleRetry, outcome |-> "pending",
                 data |-> NoData, fromCache |-> FALSE, error |-> NoError]
    IN  IF key = None
        THEN [base EXCEPT !.outcome = "rejected", !.error = MissingKeyError]
        ELSE IF ~force /\ CacheHas(store, key)
        THEN [base EXCEPT !.outcome = "resolved", !.data = CacheGet(store, key),
                          !.fromCache = TRUE]
        ELSE [base EXCEPT !.w = StartRetry(RETRIES_DEFAULT)]

StoreOf(kind) == IF kind = "month" THEN cache ELSE dailyCache

InFlight(c) == c.outcome = "pending"

----------------------------------------------------------------------------
(* components.js: the month view of UIManager.  The operators take and     *)
(* return the fields a handler touches, as a record.                       *)

View ==
    [currentData |-> currentData, groupedCategories |-> groupedCategories,
     activeCategoryKey |-> activeCategoryKey, viewPhase |-> viewPhase,
     renderedData |-> renderedData, announcement |-> announcement]

(* The category keys buildCategories returns for the items of a report,    *)
(* in its sorted order; the server's data is fixed per key and version.    *)
groupedCategoriesOf(data) ==
    IF data = Report("2025-01", 1) THEN <<"A", "B">>
    ELSE IF data = Report("2025-01", 2) THEN <<"B", "C">>
    ELSE IF data = Report("2025-02", 1) THEN <<"C", "A">>
    ELSE IF data.key \in Months /\ data.ver > 2 THEN <<"A">>
    ELSE <<>>

SeqElems(s) == { s[i] : i \in 1..Len(s) }

(* Mutant: the first category becomes active whatever was active *)
ensureActiveCategory_alwaysFirst(active, categories) ==
    IF Len(categories) > 0 THEN categories[1] ELSE None

ensureActiveCategory(active, categories) ==
    IF active # None /\ active \in SeqElems(categories) THEN active
    ELSE IF Len(categories) > 0 THEN categories[1] ELSE None

showLoadingState(u) ==
    [u EXCEPT !.groupedCategories = <<>>, !.activeCategoryKey = None,
              !.viewPhase = "loading", !.renderedData = NoData]

handleLoadError(u) ==
    [u EXCEPT !.viewPhase = "error", !.renderedData = NoData]

announce(u, message) == [u EXCEPT !.announcement = message]

(* applyData(null) stops at data.items with a TypeError, after             *)
(* setCurrentData(data) and toggleSkeletons(false).  applyData of a report *)
(* without categories stops in renderCategories with a RangeError: the     *)
(* renderer calls onSelect(null) for an empty list, onSelect calls         *)
(* renderCategories again, and so on until the stack is exhausted; by then *)
(* the summary is rendered, the list is empty and no category is active.   *)
applyDataThrows(data) ==
    data = NullPayload \/ groupedCategoriesOf(data) = <<>>

applyDataUntilThrow(u, data) ==
    IF data = NullPayload THEN [u EXCEPT !.currentData = data]
    ELSE [u EXCEPT !.currentData = data, !.groupedCategories = <<>>,
                   !.activeCategoryKey = None, !.viewPhase = "data",
                   !.renderedData = data]

applyData(u, data) ==
    [u EXCEPT !.currentData = data,
              !.groupedCategories = groupedCategoriesOf(data),
              !.activeCategoryKey =
                  ensureActiveCategory(u.activeCategoryKey, groupedCategoriesOf(data)),
              !.viewPhase = "data",
              !.renderedData = data]

(* loadMonthData, catch (error) *)
loadMonthDataCatch_swallow(u, cached) == u

loadMonthDataCatch(u, cached) ==
    IF ~Truthy(cached) THEN handleLoadError(u)
    ELSE announce(u, "refresh-failed")

(* loadMonthData, after await fetchData(...) resolved with data *)
loadMonthDataResolved(u, data, cached) ==
    IF applyDataThrows(data)
    THEN loadMonthDataCatch(applyDataUntilThrow(u, data), cached)
    ELSE announce(applyData(u, data), "updated")

(* The continuation of the caller of call c *)
Continue(u, c) ==
    IF c.caller # "ui" \/ c.outcome = "pending" THEN u
    ELSE IF c.outcome = "resolved" THEN loadMonthDataResolved(u, c.data, c.cached)
    ELSE loadMonthDataCatch(u, c.cached)

SetView(u) ==
    /\ currentData' = u.currentData
    /\ groupedCategories' = u.groupedCategories
    /\ activeCategoryKey' = u.activeCategoryKey
    /\ viewPhase' = u.viewPhase
    /\ renderedData' = u.renderedData
    /\ announcement' = u.announcement

----------------------------------------------------------------------------
(* docs/js/api.js and docs/js/utils.js: the aggregation of line items.     *)
(* An amount is a JavaScript value: a finite number, null or undefined.    *)

JsNull == [kind |-> "null", n |-> 0]
JsUndefined == [kind |-> "undefined", n |-> 0]
Num(n) == [kind |-> "number", n |-> n]

(* value === null || value === undefined *)
isNullish(value) == value.kind # "number"

(* value ?? other *)
Coalesce(value, other) == IF isNullish(value) THEN other ELSE value

(* utils.js normalizeAmount, on null, undefined and finite numbers *)
normalizeAmount(value) == IF isNullish(value) THEN JsNull ELSE value

hasMeaningfulAmount(value) ==
    LET normalized == normalizeAmount(value)
    IN  normalized # JsNull /\ normalized.n # 0

shouldIncludeItem(item) ==
    hasMeaningfulAmount(item.planned_amount) \/ hasMeaningfulAmount(item.fact_amount)

(* utils.js calculateDelta: a number *)
calculateDelta(item) ==
    IF ~isNullish(item.delta_amount) THEN item.delta_amount.n
    ELSE Coalesce(item.fact_amount, Num(0)).n - Coalesce(item.planned_amount, Num(0)).n

(* "Paving" *)
Paving ==
    <<"P", "a", "v", "i", "n", "g">>

(* "paving" *)
paving ==
    <<"p", "a", "v", "i", "n", "g">>

(* the first off-schedule part key, api.js:4 *)
Vneregl_ch_1 ==
    <<"u0432", "u043d", "u0435", "u0440", "u0435", "u0433", "u043b", "_",
      "u0447", "_", "1">>

(* the second off-schedule part key, api.js:5 *)
Vneregl_ch_2 ==
    <<"u0432", "u043d", "u0435", "u0440", "u0435", "u0433", "u043b", "_",
      "u0447", "_", "2">>

(* the first part key in capital letters *)
VNEREGL_CH_1 ==
    <<"u0412", "u041d", "u0415", "u0420", "u0415", "u0413", "u041b", "_",
      "u0427", "_", "1">>

(* the second part key between spaces *)
Vneregl_ch_2_padded ==
    <<" ", "u0432", "u043d", "u0435", "u0440", "u0435", "u0433", "u043b",
      "_", "u0447", "_", "2", " ">>

(* the merged key and title, api.js:4-5 *)
Vnereglament ==
    <<"u0432", "u043d", "u0435", "u0440", "u0435", "u0433", "u043b",
      "u0430", "u043c", "u0435", "u043d", "u0442">>

(* the label of uncategorized items, api.js:223 *)
BezKategorii ==
    <<"u0431", "u0435", "u0437", " ", "u043a", "u0430", "u0442", "u0435",
      "u0433", "u043e", "u0440", "u0438", "u0438">>

(* the same label with a capital letter *)
BezKategorii_capital ==
    <<"u0411", "u0435", "u0437", " ", "u043a", "u0430", "u0442", "u0435",
      "u0433", "u043e", "u0440", "u0438", "u0438">>

(* the literal of the fallback bucket, api.js:30 *)
Prochee ==
    <<"u041f", "u0440", "u043e", "u0447", "u0435", "u0435">>

(* a value of item.smeta *)
Smeta1 ==
    <<"S", "m", "e", "t", "a", " ", "1">>

MERGED_SMETA_OVERRIDES ==
    (Vneregl_ch_1 :> [key |-> Vnereglament, title |-> Vnereglament])
    @@ (Vneregl_ch_2 :> [key |-> Vnereglament, title |-> Vnereglament])

(* a || b on strings: the empty string is falsy *)
OrElse(a, b) == IF a # <<>> THEN a ELSE b

(* Mutant: the override table is looked up with the key as written *)
resolveCategoryMeta_caseSensitive(rawKey, smetaValue) ==
    LET keyCandidate == trim(rawKey)
    IN  IF keyCandidate \in DOMAIN MERGED_SMETA_OVERRIDES
        THEN MERGED_SMETA_OVERRIDES[keyCandidate]
        ELSE LET fallbackTitle == trim(smetaValue)
                 resolvedKey == OrElse(OrElse(keyCandidate, fallbackTitle), Prochee)
             IN  [key |-> resolvedKey, title |-> OrElse(fallbackTitle, resolvedKey)]

resolveCategoryMeta(rawKey, smetaValue) ==
    LET keyCandidate == trim(rawKey)
        lowered == toLowerCase(keyCandidate)
    IN  IF lowered \in DOMAIN MERGED_SMETA_OVERRIDES
        THEN MERGED_SMETA_OVERRIDES[lowered]
        ELSE LET fallbackTitle == trim(smetaValue)
                 resolvedKey == OrElse(OrElse(keyCandidate, fallbackTitle), Prochee)
                 resolvedTitle == OrElse(fallbackTitle, resolvedKey)
             IN  [key |-> resolvedKey, title |-> resolvedTitle]

(* The order of localeCompare on lower-case strings: spaces and            *)
(* punctuation, digits, then the letters of each alphabet in order         *)
CollationOrder ==
    <<" ", "_", ".">> \o DigitChars \o CyrillicLowerChars \o LowerChars

CollationRank(c) ==
    IF \E j \in 1..Len(CollationOrder) : CollationOrder[j] = c
    THEN CHOOSE j \in 1..Len(CollationOrder) : CollationOrder[j] = c
    ELSE 0

Sign(n) == IF n < 0 THEN -1 ELSE IF n > 0 THEN 1 ELSE 0

localeCompare(a, b) ==
    LET differ == { i \in 1..Len(a) :
                       i <= Len(b) /\ CollationRank(a[i]) # CollationRank(b[i]) }
    IN  IF differ = {} THEN Sign(Len(a) - Len(b))
        ELSE LET i == CHOOSE d \in differ : \A e \in differ : d <= e
             IN  Sign(CollationRank(a[i]) - CollationRank(b[i]))

(* Array.prototype.sort(compare): the stable sort of s, where              *)
(* compared[j, i] is what compare(s[j], s[i]) returns                      *)
ArraySort(s, compared) ==
    LET Before(j, i) ==
            compared[j, i] < 0 \/ (compared[j, i] = 0 /\ j < i)
        Position(i) == 1 + Cardinality({ j \in 1..Len(s) : j # i /\ Before(j, i) })
    IN  [k \in 1..Len(s) |-> s[CHOOSE i \in 1..Len(s) : Position(i) = k]]

(* Mutant: a plan-only row is left out of the totals as well *)
pushWork_always(works, item, isPlanOnly) == Append(works, item)

(* if (!isPlanOnly) group.works.push(item) *)
pushWork(works, item, isPlanOnly) ==
    IF ~isPlanOnly THEN Append(works, item) ELSE works

groupItem_skipPlanOnly(map, item) ==
    IF ~shouldIncludeItem(item) \/ item.category_plan_only THEN map
    ELSE LET rawKey == OrElse(item.category, item.smeta)
             trimmedKey == trim(rawKey)
         IN  IF trimmedKey = <<>> THEN map
             ELSE IF toLowerCase(trimmedKey) = BezKategorii THEN map
             ELSE LET meta == resolveCategoryMeta(trimmedKey, item.smeta)
                      has == \E i \in DOMAIN map : map[i].key = meta.key
                      set == IF has THEN map
                             ELSE Append(map, [key |-> meta.key, title |-> meta.title,
                                               works |-> <<>>, planned |-> 0,
                                               fact |-> 0, delta |-> 0])
                      g == CHOOSE i \in DOMAIN set : set[i].key = meta.key
                      isPlanOnly == item.category_plan_only
                  IN  [set EXCEPT
                          ![g].title = IF @ = <<>> /\ meta.title # <<>>
                                       THEN meta.title ELSE @,
                          ![g].works = pushWork(@, item, isPlanOnly),
                          ![g].planned = @ + Coalesce(item.planned_amount, Num(0)).n,
                          ![g].fact = @ + Coalesce(item.fact_amount, Num(0)).n,
                          ![g].delta = @ + calculateDelta(item)]

(* buildCategories: the body of items.forEach, on the Map as the sequence  *)
(* of its values in insertion order                                        *)
groupItem(map, item) ==
    IF ~shouldIncludeItem(item) THEN map
    ELSE LET rawKey == OrElse(item.category, item.smeta)
             trimmedKey == trim(rawKey)
         IN  IF trimmedKey = <<>> THEN map
             ELSE IF toLowerCase(trimmedKey) = BezKategorii THEN map
             ELSE LET meta == resolveCategoryMeta(trimmedKey, item.smeta)
                      has == \E i \in DOMAIN map : map[i].key = meta.key
                      set == IF has THEN map
                             ELSE Append(map, [key |-> meta.key, title |-> meta.title,
                                               works |-> <<>>, planned |-> 0,
                                               fact |-> 0, delta |-> 0])
                      g == CHOOSE i \in DOMAIN set : set[i].key = meta.key
                      isPlanOnly == item.category_plan_only
                  IN  [set EXCEPT
                          ![g].title = IF @ = <<>> /\ meta.title # <<>>
                                       THEN meta.title ELSE @,
                          ![g].works = pushWork(@, item, isPlanOnly),
                          ![g].planned = @ + Coalesce(item.planned_amount, Num(0)).n,
                          ![g].fact = @ + Coalesce(item.fact_amount, Num(0)).n,
                          ![g].delta = @ + calculateDelta(item)]

RECURSIVE forEachItem(_, _)
forEachItem(list, map) ==
    IF list = <<>> THEN map
    ELSE forEachItem(Tail(list), groupItem(map, Head(list)))

(* the comparator of the final sort of buildCategories *)
compareCategories(a, b) ==
    IF a.planned = b.planned
    THEN localeCompare(toLowerCase(a.title), toLowerCase(b.title))
    ELSE b.planned - a.planned

buildCategories(list) ==
    LET values == forEachItem(list, <<>>)
    IN  ArraySort(values, [a \in DOMAIN values, b \in DOMAIN values |->
                              compareCategories(values[a], values[b])])

----------------------------------------------------------------------------
(* docs/js/api.js: calculateMetrics and calculateContractMetrics.  A       *)
(* quotient is kept as numerator and denominator; a percentage of the      *)
(* summary is a quotient too.                                              *)

Ratio(num, den) == [kind |-> "number", num |-> num, den |-> den]
NullRatio == [kind |-> "null", num |-> 0, den |-> 1]

(* a / b: not a finite number when b is zero *)
Divide(a, b) ==
    IF b = 0 THEN [kind |-> "not-finite", num |-> a, den |-> 0] ELSE Ratio(a, b)

(* mathematical equality of two results of a division *)
SameNumber(q, r) ==
    /\ q.kind = "number" /\ r.kind = "number"
    /\ q.num * r.den = r.num * q.den

(* {}: every field of the summary is undefined *)
EmptySummary ==
    [planned_amount |-> JsUndefined, fact_amount |-> JsUndefined,
     completion_pct |-> NullRatio, delta_amount |-> JsUndefined,
     daily_revenue |-> <<>>, average_daily_revenue |-> JsUndefined,
     contract_amount |-> JsUndefined, contract_executed |-> JsUndefined,
     contract_completion_pct |-> NullRatio]

(* A report: data itself may be null, data.summary may be missing *)
ReportOf(summary, list) ==
    [isNull |-> FALSE, hasSummary |-> TRUE, summary |-> summary, items |-> list]

NoSummaryReport(list) ==
    [isNull |-> FALSE, hasSummary |-> FALSE, summary |-> EmptySummary, items |-> list]

NoReport ==
    [isNull |-> TRUE, hasSummary |-> FALSE, summary |-> EmptySummary, items |-> <<>>]

(* return null *)
NoMetrics ==
    [isNull |-> TRUE, planned |-> JsNull, fact |-> JsNull, completion |-> NullRatio,
     delta |-> JsNull, dailyRevenue |-> <<>>, averageDailyRevenue |-> NullRatio]

NoContractMetrics ==
    [isNull |-> TRUE, contractAmount |-> JsNull, executed |-> JsNull,
     completion |-> NullRatio]

RECURSIVE reduceItems(_, _)
reduceItems(list, acc) ==
    IF list = <<>> THEN acc
    ELSE LET item == Head(list)
             acc1 == IF ~isNullish(item.planned_amount)
                     THEN [acc EXCEPT !.planned = @ + item.planned_amount.n,
                                      !.hasPlanned = TRUE]
                     ELSE acc
             acc2 == IF ~isNullish(item.fact_amount)
                     THEN [acc1 EXCEPT !.fact = @ + item.fact_amount.n,
                                       !.hasFact = TRUE]
                     ELSE acc1
         IN  reduceItems(Tail(list), acc2)

summarizeItems(list) ==
    reduceItems(list, [planned |-> 0, fact |-> 0, hasPlanned |-> FALSE,
                       hasFact |-> FALSE])

(* summary.daily_revenue.map(...).filter(Boolean) *)
RECURSIVE mapDailyRevenue(_)
mapDailyRevenue(list) ==
    IF list = <<>> THEN <<>>
    ELSE LET amount == normalizeAmount(Head(list).amount)
             date == Head(list).date
         IN  IF date = "" \/ amount = JsNull THEN mapDailyRevenue(Tail(list))
             ELSE <<[date |-> date, amount |-> amount.n]>>
                      \o mapDailyRevenue(Tail(list))

RECURSIVE sumAmounts(_)
sumAmounts(list) ==
    IF list = <<>> THEN 0 ELSE Head(list).amount + sumAmounts(Tail(list))

AsRatio(value) == IF isNullish(value) THEN NullRatio ELSE Ratio(value.n, 1)

(* a JavaScript number is truthy unless it is 0; null is falsy *)
TruthyNumber(value) == value.kind = "number" /\ value.n # 0

(* Mutant: the quotient is taken whenever planned is not null *)
calculateMetrics_divideWhenPresent(data) ==
    IF data.isNull THEN NoMetrics
    ELSE LET totals == summarizeItems(data.items)
             summary == IF data.hasSummary THEN data.summary ELSE EmptySummary
             planned == Coalesce(summary.planned_amount,
                                 IF totals.hasPlanned THEN Num(totals.planned)
                                 ELSE JsNull)
             fact == Coalesce(summary.fact_amount,
                              IF totals.hasFact THEN Num(totals.fact) ELSE JsNull)
             completion ==
                 IF ~isNullish(summary.completion_pct) THEN summary.completion_pct
                 ELSE IF planned # JsNull
                 THEN Divide(Coalesce(fact, Num(0)).n, planned.n)
                 ELSE NullRatio
             hasDelta == ~isNullish(summary.delta_amount)
             delta ==
                 IF hasDelta THEN summary.delta_amount
                 ELSE IF planned # JsNull \/ fact # JsNull
                 THEN Num(Coalesce(fact, Num(0)).n - Coalesce(planned, Num(0)).n)
                 ELSE JsNull
             dailyRevenue == mapDailyRevenue(summary.daily_revenue)
             averageDailyRevenue ==
                 Coalesce(AsRatio(normalizeAmount(summary.average_daily_revenue)),
                          IF Len(dailyRevenue) # 0
                          THEN Divide(sumAmounts(dailyRevenue), Len(dailyRevenue))
                          ELSE NullRatio)
         IN  [isNull |-> FALSE, planned |-> planned, fact |-> fact,
              completion |-> completion, delta |-> delta,
              dailyRevenue |-> dailyRevenue,
              averageDailyRevenue |-> averageDailyRevenue]

calculateMetrics(data) ==
    IF data.isNull THEN NoMetrics
    ELSE LET totals == summarizeItems(data.items)
             summary == IF data.hasSummary THEN data.summary ELSE EmptySummary
             planned == Coalesce(summary.planned_amount,
                                 IF totals.hasPlanned THEN Num(totals.planned)
                                 ELSE JsNull)
             fact == Coalesce(summary.fact_amount,
                              IF totals.hasFact THEN Num(totals.fact) ELSE JsNull)
             completion ==
                 IF ~isNullish(summary.completion_pct) THEN summary.completion_pct
                 ELSE IF TruthyNumber(planned)
                 THEN Divide(Coalesce(fact, Num(0)).n, planned.n)
                 ELSE NullRatio
             hasDelta == ~isNullish(summary.delta_amount)
             delta ==
                 IF hasDelta THEN summary.delta_amount
                 ELSE IF planned # JsNull \/ fact # JsNull
                 THEN Num(Coalesce(fact, Num(0)).n - Coalesce(planned, Num(0)).n)
                 ELSE JsNull
             dailyRevenue == mapDailyRevenue(summary.daily_revenue)
             averageDailyRevenue ==
                 Coalesce(AsRatio(normalizeAmount(summary.average_daily_revenue)),
                          IF Len(dailyRevenue) # 0
                          THEN Divide(sumAmounts(dailyRevenue), Len(dailyRevenue))
                          ELSE NullRatio)
         IN  [isNull |-> FALSE, planned |-> planned, fact |-> fact,
              completion |-> completion, delta |-> delta,
              dailyRevenue |-> dailyRevenue,
              averageDailyRevenue |-> averageDailyRevenue]

(* Mutant: a missing summary is read as {}, as calculateMetrics does *)
calculateContractMetrics_emptySummary(data) ==
    IF data.isNull
    THEN NoContractMetrics
    ELSE [isNull |-> FALSE,
          contractAmount |-> normalizeAmount(data.summary.contract_amount),
          executed |-> normalizeAmount(data.summary.contract_executed),
          completion |->
              IF ~isNullish(data.summary.contract_completion_pct)
              THEN data.summary.contract_completion_pct
              ELSE IF TruthyNumber(normalizeAmount(data.summary.contract_amount))
              THEN Divide(Coalesce(normalizeAmount(data.summary.contract_executed),
                                   Num(0)).n,
                          normalizeAmount(data.summary.contract_amount).n)
              ELSE NullRatio]

calculateContractMetrics(data) ==
    IF data.isNull \/ ~data.hasSummary THEN NoContractMetrics
    ELSE LET summary == data.summary
             contractAmount == normalizeAmount(summary.contract_amount)
             executed == normalizeAmount(summary.contract_executed)
             completion ==
                 IF ~isNullish(summary.contract_completion_pct)
                 THEN summary.contract_completion_pct
                 ELSE IF TruthyNumber(contractAmount)
                 THEN Divide(Coalesce(executed, Num(0)).n, contractAmount.n)
                 ELSE NullRatio
         IN  [isNull |-> FALSE, contractAmount |-> contractAmount,
              executed |-> executed, completion |-> completion]

----------------------------------------------------------------------------
(* components.js: sortWorks and getSortValueForWork *)

NegativeInfinity == [kind |-> "-infinity", n |-> 0]
NaN == [kind |-> "NaN", n |-> 0]

(* Number(value): null is 0, undefined is NaN *)
ToNumber(value) ==
    IF value.kind = "number" THEN value
    ELSE IF value.kind = "null" THEN Num(0)
    ELSE NaN

getSortValueForWork(column, item) ==
    LET value == IF column = "fact" THEN item.fact_amount
                 ELSE IF column = "delta" THEN Num(calculateDelta(item))
                 ELSE Coalesce(item.planned_amount, item.fact_amount)
        numeric == ToNumber(value)
    IN  IF numeric.kind = "number" THEN numeric ELSE NegativeInfinity

(* (a?.work_name || a?.description || "").toLowerCase() *)
sortName(item) == toLowerCase(item.work_name)

(* Mutant: the works are ordered by delta, the largest first *)
compareByDelta_descending(a, b) ==
    IF calculateDelta(b) - calculateDelta(a) # 0
    THEN calculateDelta(b) - calculateDelta(a)
    ELSE localeCompare(sortName(a), sortName(b))

(* the comparator of sortWorks for the delta column *)
compareByDelta(a, b) ==
    LET deltaA == calculateDelta(a)
        deltaB == calculateDelta(b)
        isNegativeA == deltaA < 0
        isNegativeB == deltaB < 0
    IN  IF isNegativeA # isNegativeB THEN (IF isNegativeA THEN -1 ELSE 1)
        ELSE IF isNegativeA /\ isNegativeB /\ deltaA - deltaB # 0
        THEN deltaA - deltaB
        ELSE IF ~(isNegativeA /\ isNegativeB) /\ deltaB - deltaA # 0
        THEN deltaB - deltaA
        ELSE localeCompare(sortName(a), sortName(b))

(* the comparator of sortWorks for the other columns.  valueB - valueA is  *)
(* NaN when both are -Infinity: NaN !== 0, the comparator returns NaN and  *)
(* sort takes it as 0.                                                     *)
compareByValue(column, a, b) ==
    LET valueA == getSortValueForWork(column, a)
        valueB == getSortValueForWork(column, b)
    IN  IF valueA = NegativeInfinity /\ valueB = NegativeInfinity THEN 0
        ELSE IF valueA = NegativeInfinity THEN 1
        ELSE IF valueB = NegativeInfinity THEN -1
        ELSE IF valueB.n - valueA.n # 0 THEN valueB.n - valueA.n
        ELSE localeCompare(sortName(a), sortName(b))

sortWorks(works, column) ==
    IF column = "delta"
    THEN ArraySort(works, [a \in DOMAIN works, b \in DOMAIN works |->
                              compareByDelta(works[a], works[b])])
    ELSE ArraySort(works, [a \in DOMAIN works, b \in DOMAIN works |->
                              compareByValue(column, works[a], works[b])])

----------------------------------------------------------------------------
(* Actions of the dashboard *)

otherVars == <<retry, retryHist, classified, aggVars, uiVars>>
viewVars == <<currentData, groupedCategories, activeCategoryKey, viewPhase,
              renderedData, announcement>>

NoCall ==
    [kind |-> None, key |-> None, force |-> FALSE, caller |-> None,
     cached |-> NoData, w |-> IdleRetry, outcome |-> "pending",
     data |-> NoData, fromCache |-> FALSE, error |-> NoError]

RemoveAt(s, i) == SubSeq(s, 1, i - 1) \o SubSeq(s, i + 1, Len(s))

(* A call made: it is pending, or it settled before control returned *)
Issue(c) ==
    /\ issued' = issued + 1
    /\ IF InFlight(c)
       THEN calls' = Append(calls, c) /\ UNCHANGED <<settled, completedOk>>
       ELSE /\ settled' = c
            /\ completedOk' = IF c.outcome = "resolved" /\ ~c.force
                              THEN completedOk \cup {<<c.kind, c.key, c.fromCache>>}
                              ELSE completedOk
            /\ UNCHANGED calls

(* The pending call i settles as c *)
Settle(i, c) ==
    /\ calls' = RemoveAt(calls, i)
    /\ settled' = c
    /\ completedOk' = IF c.outcome = "resolved" /\ ~c.force
                      THEN completedOk \cup {<<c.kind, c.key, c.fromCache>>}
                      ELSE completedOk
    /\ UNCHANGED issued

(* UIManager.loadMonthData(monthIso), up to its await; at most limit calls *)
(* are made in one behaviour                                               *)
LoadMonthDataUpTo(monthIso, limit) ==
    /\ issued < limit
    /\ LET cached == getCached(monthIso)
           shown == IF Truthy(cached) THEN applyData(View, cached)
                    ELSE showLoadingState(View)
           c == fetchStart(cache, "month", monthIso, Truthy(cached), "ui", cached)
       IN  /\ selectedMonth' = monthIso
           /\ IF Truthy(cached) /\ applyDataThrows(cached)
              THEN \* applyData(cached) throws before the try: no fetch is made
                   /\ issued' = issued + 1
                   /\ SetView(applyDataUntilThrow(View, cached))
                   /\ UNCHANGED <<calls, settled, completedOk>>
              ELSE /\ Issue(c)
                   /\ SetView(Continue(shown, c))
    /\ UNCHANGED <<cache, dailyCache>>
    /\ UNCHANGED otherVars

LoadMonthData(monthIso) == LoadMonthDataUpTo(monthIso, MaxCalls)

(* DataManager.fetchData(monthIso, {force}) called on its own *)
FetchData(monthIso, force) ==
    /\ issued < MaxFetches
    /\ Issue(fetchStart(cache, "month", monthIso, force, "api", NoData))
    /\ UNCHANGED <<cache, dailyCache, selectedMonth>>
    /\ UNCHANGED viewVars
    /\ UNCHANGED otherVars

(* DataManager.fetchDailyReport(dayIso, {force}) called on its own *)
FetchDailyReport(dayIso, force) ==
    /\ issued < MaxFetches
    /\ Issue(fetchStart(dailyCache, "day", dayIso, force, "api", NoData))
    /\ UNCHANGED <<cache, dailyCache, selectedMonth>>
    /\ UNCHANGED viewVars
    /\ UNCHANGED otherVars

(* Mutant: the payload is stored under every key of the store *)
CacheSet_allKeys(kind, key, data) ==
    IF kind = "month"
    THEN cache' = [k \in DOMAIN cache |-> data] /\ UNCHANGED dailyCache
    ELSE dailyCache' = [k \in DOMAIN dailyCache |-> data] /\ UNCHANGED cache

(* this.cache.set(key, data) / this.dailyCache.set(key, data) *)
CacheSet(kind, key, data) ==
    IF kind = "month"
    THEN cache' = [cache EXCEPT ![key] = data] /\ UNCHANGED dailyCache
    ELSE dailyCache' = [dailyCache EXCEPT ![key] = data] /\ UNCHANGED cache

(* The request of call i is answered 2xx with a body that parses:          *)
(* withRetry returns, response.json() gives data, the cache is set and the *)
(* caller continues.                                                       *)
RequestSucceeds(i, data) ==
    /\ i \in DOMAIN calls
    /\ calls[i].w.pc = "request"
    /\ data \in ServerPayloads(calls[i].key)
    /\ LET c == [calls[i] EXCEPT !.w = withRetryOnSuccess(@, data),
                                 !.outcome = "resolved", !.data = data]
       IN  /\ Settle(i, c)
           /\ CacheSet(c.kind, c.key, data)
           /\ SetView(Continue(View, c))
    /\ UNCHANGED selectedMonth
    /\ UNCHANGED otherVars

(* The request is answered 2xx but response.json() rejects *)
RequestUnparsable(i) ==
    /\ i \in DOMAIN calls
    /\ calls[i].w.pc = "request"
    /\ LET c == [calls[i] EXCEPT !.w = withRetryOnSuccess(@, Unparsable),
                                 !.outcome = "rejected", !.error = JsonSyntaxError]
       IN  /\ Settle(i, c)
           /\ SetView(Continue(View, c))
    /\ UNCHANGED <<cache, dailyCache, selectedMonth>>
    /\ UNCHANGED otherVars

(* The request fails (non-2xx answer, or fetch rejects): withRetry either  *)
(* waits for another attempt or throws, and then the caller continues.     *)
RequestFails(i, error) ==
    /\ i \in DOMAIN calls
    /\ calls[i].w.pc = "request"
    /\ LET w == withRetryOnError(calls[i].w, error)
       IN  IF w.pc = "thrown"
           THEN LET c == [calls[i] EXCEPT !.w = w, !.outcome = "rejected",
                                          !.error = w.lastError]
                IN  Settle(i, c) /\ SetView(Continue(View, c))
           ELSE /\ calls' = [calls EXCEPT ![i].w = w]
                /\ UNCHANGED <<issued, settled, completedOk>>
                /\ UNCHANGED viewVars
    /\ UNCHANGED <<cache, dailyCache, selectedMonth>>
    /\ UNCHANGED otherVars

(* The delay of withRetry is over: next attempt *)
WaitElapsed(i) ==
    /\ i \in DOMAIN calls
    /\ calls[i].w.pc = "wait"
    /\ calls' = [calls EXCEPT ![i].w = withRetryOnWaitElapsed(@)]
    /\ UNCHANGED <<cache, dailyCache, issued, settled, completedOk, selectedMonth>>
    /\ UNCHANGED viewVars
    /\ UNCHANGED otherVars

(* A click on a category card: renderCategories' onSelect(key) *)
SelectCategory(key) ==
    /\ viewPhase = "data"
    /\ key \in SeqElems(groupedCategories)
    /\ key # activeCategoryKey
    /\ activeCategoryKey' = key
    /\ UNCHANGED <<cache, dailyCache, currentData, calls, issued, settled, completedOk,
                   selectedMonth, groupedCategories, viewPhase, renderedData,
                   announcement>>
    /\ UNCHANGED otherVars

(* No input given to the aggregation functions yet *)
InitAgg ==
    /\ items = <<>>
    /\ builtCategories = <<>>
    /\ workSort = "planned"
    /\ sortedWorks = <<>>
    /\ report = NoReport
    /\ metrics = NoMetrics
    /\ contractMetrics = NoContractMetrics
    /\ applied = "none"

(* No withRetry call and no error on their own *)
InitIdle ==
    /\ retry = IdleRetry
    /\ retryHist = <<>>
    /\ classified = [error |-> NoError, transport |-> FALSE, retryable |-> FALSE]

(* No rendering under way *)
IdleRender == [pc |-> "idle", depth |-> 0, incoming |-> <<>>, workList |-> "initial"]

(* The daily view after the constructor: monthly mode, no day chosen *)
InitDaily ==
    /\ viewMode = "monthly"
    /\ dayOptionsLoaded = FALSE
    /\ selectedDay = None
    /\ selectedDayIso = None
    /\ daySelect = [value |-> None, disabled |-> FALSE]
    /\ availableDays = <<>>
    /\ dailyView = [phase |-> "init", data |-> NoData]
    /\ dayTasks = <<>>
    /\ userOps = 0
    /\ lastSwitch = [mode |-> None, early |-> FALSE]

(* The modal after the constructor: hidden, no rows *)
InitModal ==
    /\ modal = [title |-> None, visible |-> FALSE, mode |-> "average",
                toast |-> FALSE]
    /\ modalRows = [work |-> None, rows |-> <<>>]
    /\ modalTasks = <<>>
    /\ opens = 0

InitUi ==
    /\ render = IdleRender
    /\ InitDaily
    /\ InitModal

InitOther == InitIdle /\ InitAgg /\ InitUi

InitDash ==
    /\ cache = [m \in Months |-> Absent]
    /\ dailyCache = [d \in Days |-> Absent]
    /\ currentData = NoData
    /\ calls = <<>>
    /\ issued = 0
    /\ settled = NoCall
    /\ completedOk = {}
    /\ selectedMonth = None
    /\ groupedCategories = <<>>
    /\ activeCategoryKey = None
    /\ viewPhase = "init"
    /\ renderedData = NoData
    /\ announcement = None

Init == InitDash /\ InitOther

(* The month view driven by its user *)
Next ==
    \/ \E m \in Months : LoadMonthData(m)
    \/ \E i \in DOMAIN calls : \E data \in ServerPayloads(calls[i].key) :
           RequestSucceeds(i, data)
    \/ \E i \in DOMAIN calls : RequestUnparsable(i)
    \/ \E i \in DOMAIN calls, e \in NetErrors : RequestFails(i, e)
    \/ \E i \in DOMAIN calls : WaitElapsed(i)
    \/ \E k \in {"A", "B", "C"} : SelectCategory(k)

Spec == Init /\ [][Next]_vars

(* a pending request of some call is answered, or fails *)
RequestSettles ==
    \/ \E i \in DOMAIN calls : \E data \in ServerPayloads(calls[i].key) :
           RequestSucceeds(i, data)
    \/ \E i \in DOMAIN calls : RequestUnparsable(i)
    \/ \E i \in DOMAIN calls, e \in NetErrors : RequestFails(i, e)

(* a pending timer of withRetry fires *)
TimerFires == \E i \in DOMAIN calls : WaitElapsed(i)

NextFair ==
    \/ \E m \in Months : LoadMonthDataUpTo(m, MaxLoads)
    \/ RequestSettles
    \/ TimerFires
    \/ \E k \in {"A", "B", "C"} : SelectCategory(k)

(* The month view when every network request settles and every timer fires *)
FairSpec ==
    Init /\ [][NextFair]_vars /\ WF_vars(RequestSettles) /\ WF_vars(TimerFires)

(* The DataManager driven through its own interface *)
NextData ==
    \/ \E m \in Months \cup {None}, force \in BOOLEAN : FetchData(m, force)
    \/ \E d \in Days \cup {None}, force \in BOOLEAN : FetchDailyReport(d, force)
    \/ \E i \in DOMAIN calls : \E data \in ServerPayloads(calls[i].key) :
           RequestSucceeds(i, data)
    \/ \E i \in DOMAIN calls : RequestUnparsable(i)
    \/ \E i \in DOMAIN calls, e \in NetErrors : RequestFails(i, e)
    \/ \E i \in DOMAIN calls : WaitElapsed(i)

SpecData == Init /\ [][NextData]_vars

----------------------------------------------------------------------------
(* One withRetry call on its own, for every retry budget *)

RetryErrors ==
    { buildHttpError(503), buildHttpError(404),
      TransportError("TypeError",
          <<"F", "a", "i", "l", "e", "d", " ", "t", "o", " ", "f", "e", "t", "c", "h">>),
      TransportError("AbortError",
          <<"T", "h", "e", " ", "u", "s", "e", "r", " ", "a", "b", "o", "r", "t", "e", "d",
            " ", "a", " ", "r", "e", "q", "u", "e", "s", "t", ".">>) }

RetryValues == { Report("2025-01", 1), Report("2025-01", 2) }

(* requestFn() resolves with value *)
RetryRequestSucceeds(value) ==
    /\ retry.pc = "request"
    /\ retry' = withRetryOnSuccess(retry, value)
    /\ retryHist' = Append(retryHist, [ok |-> TRUE, value |-> value, error |-> NoError])
    /\ UNCHANGED dashVars
    /\ UNCHANGED <<classified, aggVars, uiVars>>

(* requestFn() rejects with error *)
RetryRequestFails(error) ==
    /\ retry.pc = "request"
    /\ Len(retryHist) <= MaxRetries + 1
    /\ retry' = withRetryOnError(retry, error)
    /\ retryHist' = Append(retryHist, [ok |-> FALSE, value |-> NoData, error |-> error])
    /\ UNCHANGED dashVars
    /\ UNCHANGED <<classified, aggVars, uiVars>>

(* the timer of wait(delayMs) fires *)
RetryWaitElapsed ==
    /\ retry.pc = "wait"
    /\ retry' = withRetryOnWaitElapsed(retry)
    /\ UNCHANGED retryHist
    /\ UNCHANGED dashVars
    /\ UNCHANGED <<classified, aggVars, uiVars>>

RetrySettles ==
    \/ \E v \in RetryValues : RetryRequestSucceeds(v)
    \/ \E e \in RetryErrors : RetryRequestFails(e)

InitRetry ==
    /\ InitDash
    /\ retry \in { StartRetry(n) : n \in 0..MaxRetries }
    /\ retryHist = <<>>
    /\ classified = [error |-> NoError, transport |-> FALSE, retryable |-> FALSE]
    /\ InitAgg
    /\ InitUi

NextRetry ==
    \/ \E v \in RetryValues : RetryRequestSucceeds(v)
    \/ \E e \in RetryErrors : RetryRequestFails(e)
    \/ RetryWaitElapsed

SpecRetry == InitRetry /\ [][NextRetry]_vars

(* Every request settles and every timer fires *)
FairSpecRetry ==
    InitRetry /\ [][NextRetry]_vars /\ WF_vars(RetrySettles) /\ WF_vars(RetryWaitElapsed)

----------------------------------------------------------------------------
(* The classification of one failure, as a function of its input *)

(* a non-2xx response: throw buildHttpError(res) *)
HttpFailure(status) ==
    /\ classified' = [error |-> buildHttpError(status), transport |-> FALSE,
                      retryable |-> isRetryableError(buildHttpError(status))]
    /\ UNCHANGED dashVars
    /\ UNCHANGED <<retry, retryHist, aggVars, uiVars>>

(* fetch() rejects: no response *)
TransportFailure(error) ==
    /\ classified' = [error |-> error, transport |-> TRUE,
                      retryable |-> isRetryableError(error)]
    /\ UNCHANGED dashVars
    /\ UNCHANGED <<retry, retryHist, aggVars, uiVars>>

NextErr ==
    \/ \E s \in HttpStatuses : HttpFailure(s)
    \/ \E e \in TransportErrors : TransportFailure(e)

SpecErr == Init /\ [][NextErr]_vars

----------------------------------------------------------------------------
(* buildCategories as a function of the list of line items *)

LineItem(category, smeta, work_name, planned, fact, delta, planOnly) ==
    [category |-> category, smeta |-> smeta, work_name |-> work_name,
     planned_amount |-> planned, fact_amount |-> fact, delta_amount |-> delta,
     category_plan_only |-> planOnly]

(* every list of at most n elements of set *)
ListsOf(set, n) == UNION { [1..k -> set] : k \in 0..n }

CategoryLabels ==
    { <<>>, Paving, paving, Vneregl_ch_1, Vneregl_ch_2, VNEREGL_CH_1,
      Vneregl_ch_2_padded, Vnereglament, BezKategorii, BezKategorii_capital }

(* The line items the server may send: every label with amounts 100 / 50,  *)
(* and for "Paving" the other shapes of amounts, a plan-only row and rows  *)
(* that carry a smeta.                                                     *)
CategoryItems ==
    { LineItem(l, <<>>, <<"w">>, Num(100), Num(50), JsUndefined, FALSE) :
          l \in CategoryLabels }
    \cup
    { LineItem(Paving, <<>>, <<"w">>, a[1], a[2], a[3], FALSE) :
          a \in { <<Num(1000), Num(800), JsUndefined>>,
                  <<Num(500), Num(700), JsNull>>,
                  <<JsNull, Num(50), JsNull>>,
                  <<Num(100), JsUndefined, JsUndefined>>,
                  <<Num(0), Num(0), JsNull>>,
                  <<JsNull, JsNull, JsNull>>,
                  <<Num(100), Num(50), Num(7)>> } }
    \cup
    { LineItem(Paving, <<>>, <<"w">>, Num(500), Num(700), JsNull, TRUE),
      LineItem(<<>>, Smeta1, <<"w">>, Num(100), Num(50), JsNull, FALSE),
      LineItem(Paving, Smeta1, <<"w">>, Num(100), Num(50), JsNull, FALSE) }

(* applyData: this.groupedCategories = buildCategories(data.items) *)
BuildCategories ==
    /\ applied = "none"
    /\ builtCategories' = buildCategories(items)
    /\ applied' = "buildCategories"
    /\ UNCHANGED <<items, workSort, sortedWorks, report, metrics, contractMetrics>>
    /\ UNCHANGED dashVars
    /\ UNCHANGED <<retry, retryHist, classified, uiVars>>

InitCategories ==
    /\ InitDash
    /\ InitIdle
    /\ InitUi
    /\ items \in ListsOf(CategoryItems, MaxItems)
    /\ builtCategories = <<>>
    /\ workSort = "planned"
    /\ sortedWorks = <<>>
    /\ report = NoReport
    /\ metrics = NoMetrics
    /\ contractMetrics = NoContractMetrics
    /\ applied = "none"

NextCategories == BuildCategories

SpecCategories == InitCategories /\ [][NextCategories]_vars

----------------------------------------------------------------------------
(* calculateMetrics and calculateContractMetrics as functions of the report *)

MetricItems ==
    { LineItem(Paving, <<>>, <<"w">>, a[1], a[2], JsNull, FALSE) :
          a \in { <<Num(1000), Num(800)>>, <<JsNull, Num(50)>>,
                  <<Num(0), Num(0)>>, <<JsNull, JsUndefined>> } }

(* summaries with the pre-aggregated amounts *)
AmountSummaries ==
    { [EmptySummary EXCEPT !.planned_amount = p, !.fact_amount = f,
                           !.completion_pct = c, !.delta_amount = d] :
          p \in {JsNull, Num(0), Num(2000)},
          f \in {JsUndefined, Num(0), Num(500)},
          c \in {NullRatio, Ratio(0, 1), Ratio(1, 2)},
          d \in {JsNull, Num(-5)} }

RevenueDay == "2025-02-10"

(* summaries with the daily revenue series *)
RevenueSummaries ==
    { [EmptySummary EXCEPT !.daily_revenue = r, !.average_daily_revenue = a] :
          r \in { <<>>,
                  <<[date |-> RevenueDay, amount |-> Num(100)]>>,
                  <<[date |-> RevenueDay, amount |-> Num(100)],
                    [date |-> RevenueDay, amount |-> Num(200)]>>,
                  <<[date |-> "", amount |-> Num(100)]>>,
                  <<[date |-> RevenueDay, amount |-> JsNull],
                    [date |-> RevenueDay, amount |-> Num(300)]>> },
          a \in {JsNull, Num(150)} }

(* summaries with the contract figures *)
ContractSummaries ==
    { [EmptySummary EXCEPT !.contract_amount = a, !.contract_executed = e,
                           !.contract_completion_pct = c] :
          a \in {JsNull, Num(0), Num(1000000)},
          e \in {JsUndefined, Num(0), Num(250000)},
          c \in {NullRatio, Ratio(0, 1), Ratio(1, 2)} }

Reports ==
    { ReportOf(summary, list) :
          summary \in AmountSummaries \cup RevenueSummaries \cup ContractSummaries,
          list \in ListsOf(MetricItems, MaxItems) }
    \cup { NoSummaryReport(list) : list \in ListsOf(MetricItems, MaxItems) }
    \cup { NoReport }

(* updateSummary: this.dataManager.calculateMetrics(currentData) *)
CalculateMetrics ==
    /\ applied = "none"
    /\ metrics' = calculateMetrics(report)
    /\ applied' = "calculateMetrics"
    /\ UNCHANGED <<items, builtCategories, workSort, sortedWorks, report,
                   contractMetrics>>
    /\ UNCHANGED dashVars
    /\ UNCHANGED <<retry, retryHist, classified, uiVars>>

(* updateSummary: this.dataManager.calculateContractMetrics(currentData) *)
CalculateContractMetrics ==
    /\ applied = "none"
    /\ contractMetrics' = calculateContractMetrics(report)
    /\ applied' = "calculateContractMetrics"
    /\ UNCHANGED <<items, builtCategories, workSort, sortedWorks, report, metrics>>
    /\ UNCHANGED dashVars
    /\ UNCHANGED <<retry, retryHist, classified, uiVars>>

InitMetrics ==
    /\ InitDash
    /\ InitIdle
    /\ InitUi
    /\ items = <<>>
    /\ builtCategories = <<>>
    /\ workSort = "planned"
    /\ sortedWorks = <<>>
    /\ report \in Reports
    /\ metrics = NoMetrics
    /\ contractMetrics = NoContractMetrics
    /\ applied = "none"

NextMetrics ==
    \/ CalculateMetrics
    \/ CalculateContractMetrics

SpecMetrics == InitMetrics /\ [][NextMetrics]_vars

----------------------------------------------------------------------------
(* The work list of the active category and its sort column *)

SortColumns == {"planned", "fact", "delta"}

Work(work_name, planned, fact, delta) ==
    LineItem(Paving, <<>>, work_name, planned, fact, delta, FALSE)

(* The works of the active category: deltas of both signs and zero, equal  *)
(* deltas under different names, amounts that are null or undefined.       *)
Works ==
    { Work(<<"a">>, Num(100), Num(150), JsUndefined),
      Work(<<"a">>, Num(100), Num(40), JsUndefined),
      Work(<<"a">>, Num(200), Num(190), JsNull),
      Work(<<"a">>, JsNull, Num(500), JsUndefined),
      Work(<<"a">>, Num(300), JsNull, JsUndefined),
      Work(<<"a">>, JsUndefined, JsUndefined, Num(0)),
      Work(<<"b">>, Num(50), Num(0), Num(-60)),
      Work(<<"b">>, Num(100), Num(0), JsUndefined) }

(* renderWorkList: works = [...activeCategory.works]; this.sortWorks(works) *)
RenderWorkList ==
    /\ applied = "none"
    /\ sortedWorks' = sortWorks(items, workSort)
    /\ applied' = "sortWorks"
    /\ UNCHANGED <<items, builtCategories, workSort, report, metrics,
                   contractMetrics>>
    /\ UNCHANGED dashVars
    /\ UNCHANGED <<retry, retryHist, classified, uiVars>>

(* handleWorkSortChange(column): the column changes and the list is        *)
(* rendered again                                                          *)
HandleWorkSortChange(column) ==
    /\ column # workSort
    /\ workSort' = column
    /\ sortedWorks' = sortWorks(items, column)
    /\ applied' = "sortWorks"
    /\ UNCHANGED <<items, builtCategories, report, metrics, contractMetrics>>
    /\ UNCHANGED dashVars
    /\ UNCHANGED <<retry, retryHist, classified, uiVars>>

InitSort ==
    /\ InitDash
    /\ InitIdle
    /\ InitUi
    /\ items \in ListsOf(Works, MaxWorks)
    /\ builtCategories = <<>>
    /\ workSort = "planned"
    /\ sortedWorks = <<>>
    /\ report = NoReport
    /\ metrics = NoMetrics
    /\ contractMetrics = NoContractMetrics
    /\ applied = "none"

NextSort ==
    \/ RenderWorkList
    \/ \E column \in SortColumns : HandleWorkSortChange(column)

SpecSort == InitSort /\ [][NextSort]_vars

----------------------------------------------------------------------------
(* The rendering inside applyData, call by call: applyData rebuilds the    *)
(* categories, heals the active key and calls renderCategories and         *)
(* renderWorkList.  The renderer of the category cards calls onSelect(null)*)
(* for an empty list, and UIManager's onSelect calls renderCategories      *)
(* again before renderWorkList.                                            *)

CategoryKeys == {"A", "B", "C"}

(* The lists of distinct category keys buildCategories can return *)
KeyLists ==
    { l \in UNION { [1..n -> CategoryKeys] : n \in 0..Cardinality(CategoryKeys) } :
        \A i, j \in DOMAIN l : i # j => l[i] # l[j] }

(* applyData up to the call of renderCategories *)
ApplyData ==
    /\ render.pc = "idle"
    /\ groupedCategories' = render.incoming
    /\ activeCategoryKey' = ensureActiveCategory(activeCategoryKey, render.incoming)
    /\ viewPhase' = "data"
    /\ render' = [render EXCEPT !.pc = "renderCategories", !.depth = 1]
    /\ UNCHANGED <<cache, dailyCache, currentData, calls, issued, settled,
                   completedOk, selectedMonth, renderedData, announcement>>
    /\ UNCHANGED <<retry, retryHist, classified, aggVars, dailyVars, modalVars>>

(* UIManager.renderCategories calling the renderer of the cards: an empty  *)
(* list shows the empty state and calls onSelect(null), which sets the key *)
(* and calls renderCategories one frame deeper, until the engine refuses   *)
(* the next frame with a RangeError that unwinds applyData                 *)
RenderCategories ==
    /\ render.pc = "renderCategories"
    /\ IF groupedCategories = <<>>
       THEN /\ activeCategoryKey' = None
            /\ render' = IF render.depth < MaxStack
                          THEN [render EXCEPT !.depth = @ + 1]
                          ELSE [render EXCEPT !.pc = "RangeError", !.depth = 0]
       ELSE /\ render' = [render EXCEPT !.pc = "renderWorkList"]
            /\ UNCHANGED activeCategoryKey
    /\ UNCHANGED <<cache, dailyCache, currentData, calls, issued, settled,
                   completedOk, selectedMonth, groupedCategories, viewPhase,
                   renderedData, announcement>>
    /\ UNCHANGED <<retry, retryHist, classified, aggVars, dailyVars, modalVars>>

(* renderWorkList: the works of the active category, or the state without  *)
(* a selected category                                                     *)
RenderWorkListOfActive ==
    /\ render.pc = "renderWorkList"
    /\ render' = [render EXCEPT
                    !.pc = "done", !.depth = 0,
                    !.workList = IF activeCategoryKey \in SeqElems(groupedCategories)
                                 THEN activeCategoryKey ELSE "no-category"]
    /\ UNCHANGED dashVars
    /\ UNCHANGED <<retry, retryHist, classified, aggVars, dailyVars, modalVars>>

(* Before applyData: the view of the constructor, or a view rendered from  *)
(* an earlier report; the rebuilt list is any list of keys                 *)
InitRender ==
    /\ InitIdle
    /\ InitAgg
    /\ InitDaily
    /\ InitModal
    /\ cache = [m \in Months |-> Absent]
    /\ dailyCache = [d \in Days |-> Absent]
    /\ currentData = NoData
    /\ calls = <<>>
    /\ issued = 0
    /\ settled = NoCall
    /\ completedOk = {}
    /\ selectedMonth = None
    /\ renderedData = NoData
    /\ announcement = None
    /\ groupedCategories \in KeyLists
    /\ activeCategoryKey \in CategoryKeys \cup {None}
    /\ IF groupedCategories = <<>>
       THEN activeCategoryKey = None /\ viewPhase = "init"
       ELSE activeCategoryKey \in SeqElems(groupedCategories) /\ viewPhase = "data"
    /\ \E incoming \in KeyLists :
          render = [pc |-> "idle", depth |-> 0, incoming |-> incoming,
                    workList |-> IF groupedCategories = <<>> THEN "initial"
                                 ELSE activeCategoryKey]

NextRender ==
    \/ ApplyData
    \/ RenderCategories
    \/ RenderWorkListOfActive

SpecRender == InitRender /\ [][NextRender]_vars

----------------------------------------------------------------------------
(* The daily view: switchViewMode, initDaySelect, loadDailyData (the       *)
(* second definition of the class, which replaces the first) and           *)
(* applyDailyData.  A fetch is one step here, answered or failed after its *)
(* retries; the server answers a day with a report.                        *)

(* The days of the calendar, oldest first; ISO strings compare as dates *)
DayPool == <<"2025-02-09", "2025-02-10">>

DayRank(day) == CHOOSE i \in DOMAIN DayPool : DayPool[i] = day

(* getCurrentDayIso() *)
Today == "2025-02-10"

(* An entry of the server's list that new Date(iso) cannot read *)
InvalidDay == "not-a-date"

(* What fetchAvailableDays may return: lists of distinct entries *)
RawDayLists ==
    { l \in UNION { [1..n -> SeqElems(DayPool) \cup {InvalidDay}] : n \in 0..2 } :
        \A i, j \in DOMAIN l : i # j => l[i] # l[j] }

RECURSIVE filterValidDays(_)
filterValidDays(raw) ==
    IF raw = <<>> THEN <<>>
    ELSE IF Head(raw) = InvalidDay THEN filterValidDays(Tail(raw))
    ELSE <<Head(raw)>> \o filterValidDays(Tail(raw))

(* initDaySelect: .map(...).filter(Boolean).sort((a, b) => a.iso < b.iso ? 1 : -1) *)
normalizeDays(raw) ==
    LET valid == filterValidDays(raw)
    IN  ArraySort(valid, [a \in DOMAIN valid, b \in DOMAIN valid |->
                             IF DayRank(valid[a]) < DayRank(valid[b]) THEN 1 ELSE -1])

Daily ==
    [viewMode |-> viewMode, dayOptionsLoaded |-> dayOptionsLoaded,
     selectedDay |-> selectedDay, selectedDayIso |-> selectedDayIso,
     daySelect |-> daySelect, availableDays |-> availableDays,
     dailyView |-> dailyView, dayTasks |-> dayTasks, announcement |-> announcement]

SetDaily(d) ==
    /\ viewMode' = d.viewMode
    /\ dayOptionsLoaded' = d.dayOptionsLoaded
    /\ selectedDay' = d.selectedDay
    /\ selectedDayIso' = d.selectedDayIso
    /\ daySelect' = d.daySelect
    /\ availableDays' = d.availableDays
    /\ dailyView' = d.dailyView
    /\ dayTasks' = d.dayTasks
    /\ announcement' = d.announcement

(* getCachedDaily(dayIso): this.dailyCache.get(dayIso) || null *)
getCachedDaily(dayIso) ==
    IF Truthy(CacheGet(dailyCache, dayIso)) THEN CacheGet(dailyCache, dayIso)
    ELSE NoData

(* applyDailyData(data): the report is rendered in the daily view *)
applyDailyData(d, data) ==
    [d EXCEPT !.dailyView = [phase |-> "data", data |-> data]]

(* loadDailyData(dayIso), up to its await *)
loadDailyData(d, dayIso) ==
    IF dayIso = None
    THEN [d EXCEPT !.dailyView.phase = "error"]
    ELSE LET cached == getCachedDaily(dayIso)
             selected == [d EXCEPT !.selectedDayIso = dayIso,
                                   !.daySelect.value = dayIso]
             shown == IF Truthy(cached) THEN applyDailyData(selected, cached)
                      ELSE [selected EXCEPT !.dailyView.phase = "loading"]
         IN  [shown EXCEPT !.dayTasks =
                 Append(@, [op |-> "loadDailyData", day |-> dayIso, cached |-> cached])]

(* initDaySelect(), up to its await *)
initDaySelect(d) ==
    [d EXCEPT !.daySelect = [value |-> None, disabled |-> TRUE],
              !.selectedDay = None,
              !.dayTasks = Append(@, [op |-> "initDaySelect", day |-> None,
                                      cached |-> NoData])]

(* initDaySelect, after fetchAvailableDays resolved with raw *)
initDaySelectLoaded(d, raw) ==
    LET normalized == normalizeDays(raw)
        days == IF normalized = <<>> THEN <<Today>> ELSE normalized
        initialDayIso == IF d.selectedDay # None /\ d.selectedDay \in SeqElems(days)
                         THEN d.selectedDay ELSE days[1]
    IN  [d EXCEPT !.availableDays = days,
                  !.daySelect = [value |-> initialDayIso, disabled |-> FALSE],
                  !.selectedDay = initialDayIso,
                  !.dayOptionsLoaded = TRUE]

(* initDaySelect, catch (error) *)
initDaySelectFailed(d) ==
    [d EXCEPT !.daySelect.value = None, !.dayOptionsLoaded = FALSE]

(* switchViewMode("daily") after the list of days: the target day is the   *)
(* first of the input's value, the stored day, the most recent available   *)
(* day and today                                                           *)
switchViewModeDaily(d) ==
    LET targetDay == IF d.daySelect.value # None THEN d.daySelect.value
                     ELSE IF d.selectedDay # None THEN d.selectedDay
                     ELSE IF d.availableDays # <<>> THEN d.availableDays[1]
                     ELSE Today
    IN  loadDailyData(d, targetDay)

normalizeMode(mode) == IF mode = "daily" THEN "daily" ELSE "monthly"

isCurrentMode_never(d, normalized) == FALSE

(* if (this.uiStore.getViewMode() === normalized) return; *)
isCurrentMode(d, normalized) == d.viewMode = normalized

(* switchViewMode(mode), up to its first await *)
switchViewMode(d, mode) ==
    LET normalized == normalizeMode(mode)
        switched == [d EXCEPT !.viewMode = normalized]
    IN  IF isCurrentMode(d, normalized) THEN d
        ELSE IF normalized = "daily"
        THEN IF ~d.dayOptionsLoaded THEN initDaySelect(switched)
             ELSE switchViewModeDaily(switched)
        ELSE switched

WithoutTask(d, i) == [d EXCEPT !.dayTasks = RemoveAt(@, i)]

(* Everything of the dashboard but the daily cache and the announcement *)
monthVars ==
    <<cache, currentData, calls, issued, settled, completedOk, selectedMonth,
      groupedCategories, activeCategoryKey, viewPhase, renderedData>>

(* A click on one of the view mode buttons (or a call with another mode) *)
SwitchViewMode(mode) ==
    /\ userOps < MaxUserOps
    /\ userOps' = userOps + 1
    /\ lastSwitch' = [mode |-> mode,
                      early |-> isCurrentMode(Daily, normalizeMode(mode))]
    /\ SetDaily(switchViewMode(Daily, mode))
    /\ UNCHANGED <<monthVars, dailyCache>>
    /\ UNCHANGED <<retry, retryHist, classified, aggVars, render, modalVars>>

(* The change event of the day input: loadDailyData(daySelect.value) *)
DayChanged(day) ==
    /\ userOps < MaxUserOps
    /\ viewMode = "daily"
    /\ ~daySelect.disabled
    /\ day \in SeqElems(availableDays) \cup {None}
    /\ userOps' = userOps + 1
    /\ lastSwitch' = [mode |-> None, early |-> FALSE]
    /\ SetDaily(loadDailyData([Daily EXCEPT !.daySelect.value = day], day))
    /\ UNCHANGED <<monthVars, dailyCache>>
    /\ UNCHANGED <<retry, retryHist, classified, aggVars, render, modalVars>>

(* fetchAvailableDays resolves: initDaySelect ends and switchViewMode goes  *)
(* on to load the target day                                               *)
AvailableDaysArrive(i, raw) ==
    /\ i \in DOMAIN dayTasks
    /\ dayTasks[i].op = "initDaySelect"
    /\ SetDaily(switchViewModeDaily(initDaySelectLoaded(WithoutTask(Daily, i), raw)))
    /\ UNCHANGED <<monthVars, dailyCache, userOps, lastSwitch>>
    /\ UNCHANGED <<retry, retryHist, classified, aggVars, render, modalVars>>

(* fetchAvailableDays rejects *)
AvailableDaysFail(i) ==
    /\ i \in DOMAIN dayTasks
    /\ dayTasks[i].op = "initDaySelect"
    /\ SetDaily(switchViewModeDaily(initDaySelectFailed(WithoutTask(Daily, i))))
    /\ UNCHANGED <<monthVars, dailyCache, userOps, lastSwitch>>
    /\ UNCHANGED <<retry, retryHist, classified, aggVars, render, modalVars>>

(* fetchDailyReport resolves with version ver of the day's report: the     *)
(* cache is set and loadDailyData applies the report                       *)
DailyReportArrives(i, ver) ==
    /\ i \in DOMAIN dayTasks
    /\ dayTasks[i].op = "loadDailyData"
    /\ LET data == Report(dayTasks[i].day, ver)
       IN  /\ dailyCache' = [dailyCache EXCEPT ![dayTasks[i].day] = data]
           /\ SetDaily(announce(applyDailyData(WithoutTask(Daily, i), data),
                                "day-updated"))
    /\ UNCHANGED <<monthVars, userOps, lastSwitch>>
    /\ UNCHANGED <<retry, retryHist, classified, aggVars, render, modalVars>>

(* fetchDailyReport rejects: the error state without a cached report, a    *)
(* notice with one                                                         *)
DailyReportFails(i) ==
    /\ i \in DOMAIN dayTasks
    /\ dayTasks[i].op = "loadDailyData"
    /\ SetDaily(IF ~Truthy(dayTasks[i].cached)
                THEN [WithoutTask(Daily, i) EXCEPT !.dailyView.phase = "error"]
                ELSE announce(WithoutTask(Daily, i), "day-refresh-failed"))
    /\ UNCHANGED <<monthVars, dailyCache, userOps, lastSwitch>>
    /\ UNCHANGED <<retry, retryHist, classified, aggVars, render, modalVars>>

InitDailyView ==
    /\ InitIdle
    /\ InitAgg
    /\ InitUi
    /\ cache = [m \in Months |-> Absent]
    /\ dailyCache = [d \in SeqElems(DayPool) |-> Absent]
    /\ currentData = NoData
    /\ calls = <<>>
    /\ issued = 0
    /\ settled = NoCall
    /\ completedOk = {}
    /\ selectedMonth = None
    /\ groupedCategories = <<>>
    /\ activeCategoryKey = None
    /\ viewPhase = "init"
    /\ renderedData = NoData
    /\ announcement = None

ViewModes == {"monthly", "daily", "weekly"}

NextDaily ==
    \/ \E mode \in ViewModes : SwitchViewMode(mode)
    \/ \E day \in SeqElems(DayPool) \cup {None} : DayChanged(day)
    \/ \E i \in DOMAIN dayTasks, raw \in RawDayLists : AvailableDaysArrive(i, raw)
    \/ \E i \in DOMAIN dayTasks : AvailableDaysFail(i)
    \/ \E i \in DOMAIN dayTasks, ver \in 1..MaxVer : DailyReportArrives(i, ver)
    \/ \E i \in DOMAIN dayTasks : DailyReportFails(i)

SpecDaily == InitDailyView /\ [][NextDaily]_vars

----------------------------------------------------------------------------
(* The drill-down modal of a work: the normalization of the work-breakdown *)
(* response (openWorkModal's map and filter), with JSON strings, numbers,  *)
(* null and absent fields as the values of a raw record.                   *)

Str(chars) == [kind |-> "string", n |-> 0, s |-> chars]
Infinity == [kind |-> "infinity", n |-> 0]

(* JavaScript truthiness of a JSON value *)
JsTruthy(value) ==
    \/ value.kind = "string" /\ value.s # <<>>
    \/ value.kind = "number" /\ value.n # 0

(* a || b *)
OrValue(a, b) == IF JsTruthy(a) THEN a ELSE b

NullishCoalesce_truthy(a, b) == OrValue(a, b)

(* a ?? b *)
NullishCoalesce(a, b) == IF a.kind \in {"null", "undefined"} THEN b ELSE a

DigitValue(c) == CHOOSE d \in 0..9 : DigitChars[d + 1] = c

RECURSIVE DecimalValue(_)
DecimalValue(chars) ==
    IF chars = <<>> THEN 0
    ELSE 10 * DecimalValue(SubSeq(chars, 1, Len(chars) - 1))
         + DigitValue(chars[Len(chars)])

(* Number(string): blank is 0, digits are their value, "Infinity" is       *)
(* infinite, anything else is NaN                                          *)
StringToNumber(chars) ==
    LET t == trim(chars)
    IN  IF t = <<>> THEN Num(0)
        ELSE IF \A i \in DOMAIN t : t[i] \in SeqElems(DigitChars)
        THEN Num(DecimalValue(t))
        ELSE IF t = <<"I", "n", "f", "i", "n", "i", "t", "y">> THEN Infinity
        ELSE NaN

(* Number(value) of a JSON value *)
NumberOf(value) ==
    IF value.kind = "string" THEN StringToNumber(value.s) ELSE ToNumber(value)

(* the null that map returns for a record it drops *)
NoRow == [date |-> JsNull, amount |-> JsNull, unit |-> JsNull, total_amount |-> JsNull]

(* the callback of items.map in openWorkModal *)
normalizeRow(it) ==
    LET date == OrValue(OrValue(it.date, it.work_date), it.day)
        raw == NullishCoalesce(NullishCoalesce(it.amount, it.total_volume), it.value)
        amount == IF raw.kind \in {"null", "undefined"} THEN JsNull ELSE NumberOf(raw)
        unit == OrValue(it.unit, Str(<<>>))
        total_amount == NullishCoalesce(it.total_amount, JsNull)
    IN  IF ~JsTruthy(date) \/ amount.kind = "null" \/ amount.kind # "number"
        THEN NoRow
        ELSE [date |-> date, amount |-> amount, unit |-> unit,
              total_amount |-> total_amount]

RECURSIVE filterRows(_)
filterRows(rows) ==
    IF rows = <<>> THEN <<>>
    ELSE IF Head(rows).date.kind = "null" THEN filterRows(Tail(rows))
    ELSE <<Head(rows)>> \o filterRows(Tail(rows))

(* (items || []).map(...).filter(Boolean) *)
normalizeBreakdown(list) ==
    filterRows([i \in DOMAIN list |-> normalizeRow(list[i])])

RawRow(date, work_date, day, amount, total_volume, value, unit, total_amount) ==
    [date |-> date, work_date |-> work_date, day |-> day, amount |-> amount,
     total_volume |-> total_volume, value |-> value, unit |-> unit,
     total_amount |-> total_amount]

Day1 == Str(<<"2", "0", "2", "5", "-", "0", "2", "-", "0", "1">>)
Day2 == Str(<<"2", "0", "2", "5", "-", "0", "2", "-", "0", "2">>)
SquareMetres == Str(<<"m", "2">>)

(* The records the server may send: the date and the amount under each of  *)
(* their names, absent, null, empty, zero, as a string of digits, as text  *)
(* that is no number, and as "Infinity"                                    *)
BreakdownRows ==
    LET u == JsUndefined
    IN  { RawRow(Day1, u, u, Num(5), u, u, SquareMetres, Num(100)),
          RawRow(u, Day2, u, u, Num(3), u, u, u),
          RawRow(Str(<<>>), JsNull, Day1, JsNull, u, Str(<<"1", "2">>), u, JsNull),
          RawRow(u, u, u, Num(5), u, u, SquareMetres, Num(100)),
          RawRow(Day1, u, u, u, u, u, u, u),
          RawRow(Day1, u, u, Str(<<"a", "b", "c">>), Num(7), u, u, u),
          RawRow(Day1, u, u, Str(<<>>), u, u, u, u),
          RawRow(Day2, u, u, Num(0), Num(7), u, u, Num(0)),
          RawRow(Day1, u, u, Str(<<"I", "n", "f", "i", "n", "i", "t", "y">>), u, u, u, u),
          RawRow(Str(<<>>), Str(<<>>), JsNull, Num(5), u, u, u, u),
          RawRow(Day2, u, u, JsNull, JsNull, Num(9), Str(<<>>), u) }

(* openWorkModal: the response is normalized into this.dailyRevenue *)
NormalizeBreakdown ==
    /\ applied = "none"
    /\ modalRows' = [modalRows EXCEPT !.rows = normalizeBreakdown(items)]
    /\ applied' = "normalizeBreakdown"
    /\ UNCHANGED <<items, builtCategories, workSort, sortedWorks, report, metrics,
                   contractMetrics>>
    /\ UNCHANGED dashVars
    /\ UNCHANGED <<retry, retryHist, classified, render, dailyVars>>
    /\ UNCHANGED <<modal, modalTasks, opens>>

InitBreakdown ==
    /\ InitDash
    /\ InitIdle
    /\ InitUi
    /\ items \in ListsOf(BreakdownRows, MaxRows)
    /\ builtCategories = <<>>
    /\ workSort = "planned"
    /\ sortedWorks = <<>>
    /\ report = NoReport
    /\ metrics = NoMetrics
    /\ contractMetrics = NoContractMetrics
    /\ applied = "none"

NextBreakdown == NormalizeBreakdown

SpecBreakdown == InitBreakdown /\ [][NextBreakdown]_vars

(* The drill-down modal as a state machine: a click on a work row opens   *)
(* the modal for that work and requests its breakdown; the response is     *)
(* normalized and listed when it arrives.                                  *)

WorkNames == {"A", "B"}

(* isCurrentMonth(monthIso) for the month of today *)
CurrentMonth == "2025-02"

(* What the server answers the work-breakdown request of a work with *)
BreakdownOf(workName) ==
    LET u == JsUndefined
    IN  IF workName = "A"
        THEN <<RawRow(Day1, u, u, Num(5), u, u, SquareMetres, Num(100))>>
        ELSE <<RawRow(u, Day2, u, u, Num(3), u, u, u),
               RawRow(u, u, u, Num(5), u, u, SquareMetres, Num(100))>>

(* openWorkModal(item), up to await fetch(...): nothing for a month that   *)
(* is not the current one, else the title is set and the request is made   *)
OpenWorkModal(workName) ==
    /\ opens < MaxOpens
    /\ opens' = opens + 1
    /\ IF selectedMonth # CurrentMonth
       THEN UNCHANGED <<modal, modalTasks>>
       ELSE /\ modal' = [modal EXCEPT !.title = workName]
            /\ modalTasks' = Append(modalTasks, [work |-> workName])
    /\ UNCHANGED <<modalRows, dashVars>>
    /\ UNCHANGED <<retry, retryHist, classified, aggVars, render, dailyVars>>

(* The response of call i arrives with status 2xx: the rows are set from   *)
(* it, the list is rendered and the modal is shown                         *)
BreakdownArrives(i) ==
    /\ i \in DOMAIN modalTasks
    /\ modalRows' = [work |-> modalTasks[i].work,
                     rows |-> normalizeBreakdown(BreakdownOf(modalTasks[i].work))]
    /\ modal' = [modal EXCEPT !.mode = "work", !.visible = TRUE]
    /\ modalTasks' = RemoveAt(modalTasks, i)
    /\ UNCHANGED <<opens, dashVars>>
    /\ UNCHANGED <<retry, retryHist, classified, aggVars, render, dailyVars>>

(* The request of call i fails or is answered with an error status: toast *)
BreakdownFails(i) ==
    /\ i \in DOMAIN modalTasks
    /\ modal' = [modal EXCEPT !.toast = TRUE]
    /\ modalTasks' = RemoveAt(modalTasks, i)
    /\ UNCHANGED <<modalRows, opens, dashVars>>
    /\ UNCHANGED <<retry, retryHist, classified, aggVars, render, dailyVars>>

(* closeDailyModal() *)
CloseDailyModal ==
    /\ modal.visible
    /\ modal' = [modal EXCEPT !.visible = FALSE]
    /\ UNCHANGED <<modalRows, modalTasks, opens, dashVars>>
    /\ UNCHANGED <<retry, retryHist, classified, aggVars, render, dailyVars>>

(* A month has been chosen and loaded before a work row can be clicked *)
InitModalView ==
    /\ InitIdle
    /\ InitAgg
    /\ InitUi
    /\ cache = [m \in Months |-> Absent]
    /\ dailyCache = [d \in Days |-> Absent]
    /\ currentData = NoData
    /\ calls = <<>>
    /\ issued = 0
    /\ settled = NoCall
    /\ completedOk = {}
    /\ selectedMonth \in Months
    /\ groupedCategories = <<>>
    /\ activeCategoryKey = None
    /\ viewPhase = "init"
    /\ renderedData = NoData
    /\ announcement = None

NextModal ==
    \/ \E workName \in WorkNames : OpenWorkModal(workName)
    \/ \E i \in DOMAIN modalTasks : BreakdownArrives(i)
    \/ \E i \in DOMAIN modalTasks : BreakdownFails(i)
    \/ CloseDailyModal

SpecModal == InitModalView /\ [][NextModal]_vars

----------------------------------------------------------------------------
(* Claims about the DataManager and the month view *)

(* The call made by the step, if the step makes one *)
CallMade == IF Len(calls') > Len(calls) THEN calls'[Len(calls')] ELSE settled'

(* The step in which a pending call of the month view settles *)
ViewCallSettles == Len(calls') < Len(calls) /\ settled'.caller = "ui"

(* C1: for every key at most one fetch started by fetchData /              *)
(* fetchDailyReport is pending at any time: no two pending calls share     *)
(* their kind and key.                                                     *)
C1_OneFetchPerKey ==
    \A i, j \in DOMAIN calls :
        (calls[i].kind = calls[j].kind /\ calls[i].key = calls[j].key) => i = j

(* C2: the report on display is the selected month's: a response for a     *)
(* month that is no longer selected is never rendered.                     *)
C2_ViewShowsSelectedMonth ==
    viewPhase = "data" => renderedData.key = selectedMonth

(* C3: when the fetch of loadMonthData(K) fails while another month is     *)
(* selected, the step leaves the view as it was: no error state, the data  *)
(* on display neither cleared nor replaced.                                *)
C3_FailureScopedToKey ==
    [][(ViewCallSettles /\ settled'.outcome = "rejected"
            /\ settled'.key # selectedMonth)
        => (viewPhase' = viewPhase /\ renderedData' = renderedData
            /\ groupedCategories' = groupedCategories)]_vars

(* C4: when the fetch for the selected month fails, the view shows that    *)
(* month's report and is not in the error state if a cached payload        *)
(* existed when the month was selected (the failure is only announced),    *)
(* and is in the error state if none existed.  Stated for the sessions in  *)
(* which every cached payload is a report.                                 *)
C4_FailureKeepsCachedView ==
    [][(ViewCallSettles /\ settled'.outcome = "rejected"
            /\ settled'.key = selectedMonth
            /\ \A m \in Months : cache[m] # NullPayload)
        => IF Truthy(settled'.cached)
           THEN /\ viewPhase' = "data"
                /\ renderedData'.key = selectedMonth
                /\ announcement' = "refresh-failed"
           ELSE viewPhase' = "error"]_vars

CallEnds ==
    \/ Len(calls') < Len(calls)
    \/ issued' = issued + 1 /\ Len(calls') = Len(calls)

(* C11: the caches are written only on success: a step in which a call     *)
(* ends in an error (HTTP error, transport error after the retries,        *)
(* unparsable body, missing key) leaves both caches as they were, and so   *)
(* does a step in which no call ends; a step in which a call for key K     *)
(* succeeds leaves every entry but the one of K in its own cache as it     *)
(* was, and that entry holds the payload the call returns.                 *)
C11_CachesWrittenOnSuccess ==
    [][/\ (~CallEnds \/ settled'.outcome = "rejected")
             => (cache' = cache /\ dailyCache' = dailyCache)
       /\ (CallEnds /\ settled'.outcome = "resolved")
             => /\ \A m \in Months :
                       (settled'.kind = "month" /\ settled'.key = m)
                           \/ cache'[m] = cache[m]
                /\ \A d \in Days :
                       (settled'.kind = "day" /\ settled'.key = d)
                           \/ dailyCache'[d] = dailyCache[d]
                /\ settled'.data = IF settled'.kind = "month"
                                   THEN cache'[settled'.key]
                                   ELSE dailyCache'[settled'.key]]_vars

(* A call failed after its retry while the other month was cached *)
C11_Witness ==
    /\ settled.outcome = "rejected"
    /\ settled.w.requests = 2
    /\ settled.key \in Months
    /\ \E m \in Months : m # settled.key /\ Truthy(cache[m])

(* The step in which loadMonthData runs applyData: on the cached payload   *)
(* before its fetch, or on the data its fetch resolved with                *)
AppliesData ==
    \/ issued' = issued + 1 /\ Truthy(getCached(selectedMonth'))
    \/ ViewCallSettles /\ settled'.outcome = "resolved"
           /\ settled'.data # NullPayload

(* C21: after every applyData the active category key is null exactly     *)
(* when the rebuilt list is empty and otherwise a key of the list: the key *)
(* that was active when it is still in the list, else the first key.       *)
C21_ActiveCategoryAutoHeals ==
    [][AppliesData
        => /\ (activeCategoryKey' = None) <=> (groupedCategories' = <<>>)
           /\ groupedCategories' # <<>>
                 => /\ activeCategoryKey' \in SeqElems(groupedCategories')
                    /\ activeCategoryKey' =
                          IF activeCategoryKey \in SeqElems(groupedCategories')
                          THEN activeCategoryKey
                          ELSE groupedCategories'[1]]_vars

(* the second category of the rebuilt list is still the active one *)
C21_Witness ==
    /\ viewPhase = "data" /\ announcement = "updated"
    /\ renderedData = Report("2025-02", 1)
    /\ groupedCategories = <<"C", "A">>
    /\ activeCategoryKey = "A"
    /\ settled.force /\ settled.outcome = "resolved"

(* C28: the two cache reads agree: getCached(K) returns a payload exactly  *)
(* when an unforced fetchData(K) is served from the cache.                 *)
C28_CacheReadsAgree ==
    \A m \in Months :
        Truthy(getCached(m))
            <=> fetchStart(cache, "month", m, FALSE, "ui", NoData).fromCache

(* C30: every loadMonthData call completes and the view does not stay in   *)
(* the loading state: pending calls lead to no pending call, the loading   *)
(* state leads to data or error, and when no call is pending after a load  *)
(* the view shows applied data or the error state.                         *)
C30_LoadCompletes ==
    /\ (calls # <<>>) ~> (calls = <<>>)
    /\ (viewPhase = "loading") ~> (viewPhase \in {"data", "error"})
    /\ []((calls = <<>> /\ issued > 0) => viewPhase \in {"data", "error"})

(* a load that failed after its retry left the view in the error state *)
C30_Witness ==
    /\ calls = <<>>
    /\ settled.caller = "ui" /\ settled.outcome = "rejected"
    /\ settled.w.requests = 2 /\ settled.w.waits = 1
    /\ viewPhase = "error"

----------------------------------------------------------------------------
(* Claims about the rendering inside applyData *)

(* C27: applying a report whose rebuilt category list is empty ends: the   *)
(* rendering returns (no RangeError), and once it is done no category is   *)
(* active and the work list shows the state without a selected category.   *)
C27_EmptyListRenderEnds ==
    /\ render.pc # "RangeError"
    /\ (render.pc = "done" /\ groupedCategories = <<>>) =>
          /\ activeCategoryKey = None
          /\ render.workList = "no-category"

----------------------------------------------------------------------------
(* Claims about the daily view *)

(* a step that is a call of switchViewMode *)
SwitchStep == userOps' = userOps + 1 /\ lastSwitch'.mode # None

InitTasks(tasks) ==
    Cardinality({ i \in DOMAIN tasks : tasks[i].op = "initDaySelect" })

LoadTasks(tasks) ==
    Cardinality({ i \in DOMAIN tasks : tasks[i].op = "loadDailyData" })

(* C22: a call of switchViewMode with the mode the view is in changes      *)
(* nothing (view mode, selected month and day, caches, active category,    *)
(* the views) and starts no request; the view mode is monthly or daily     *)
(* after every step; and entering the monthly mode changes the view mode   *)
(* and nothing else, and starts no request.                                *)
C22_SwitchViewModeFrame ==
    [][/\ viewMode' \in {"monthly", "daily"}
       /\ (SwitchStep /\ viewMode = normalizeMode(lastSwitch'.mode))
             => UNCHANGED <<dashVars, viewMode, dayOptionsLoaded, selectedDay,
                            selectedDayIso, daySelect, availableDays, dailyView,
                            dayTasks>>
       /\ (SwitchStep /\ viewMode = "daily"
                /\ normalizeMode(lastSwitch'.mode) = "monthly")
             => /\ viewMode' = "monthly"
                /\ UNCHANGED <<dashVars, dayOptionsLoaded, selectedDay,
                               selectedDayIso, daySelect, availableDays,
                               dailyView, dayTasks>>]_vars

(* a second click on "daily" while the list of days is still being loaded  *)
C22_Witness ==
    /\ lastSwitch = [mode |-> "daily", early |-> TRUE]
    /\ viewMode = "daily"
    /\ userOps = 2
    /\ InitTasks(dayTasks) = 1 /\ Len(dayTasks) = 1

(* C23: when the list of days arrives for initDaySelect, the day selected  *)
(* and loaded is the day selected until then if the list holds it, and the *)
(* most recent day of the list otherwise; and once a list has arrived, no  *)
(* call of switchViewMode starts initDaySelect again.                      *)
C23_DaySelectedOnEntry ==
    [][/\ (InitTasks(dayTasks') < InitTasks(dayTasks) /\ dayOptionsLoaded')
             => LET expected == IF selectedDayIso \in SeqElems(availableDays')
                                THEN selectedDayIso ELSE availableDays'[1]
                IN  /\ selectedDayIso' = expected
                    /\ daySelect'.value = expected
                    /\ dayTasks'[Len(dayTasks')].day = expected
       /\ (SwitchStep /\ availableDays # <<>>)
             => InitTasks(dayTasks') = InitTasks(dayTasks)]_vars

(* C24: when no loadDailyData call is waiting and the daily view shows a   *)
(* report, it is the report of the selected day: the completion of a load  *)
(* for a day that is no longer selected changes nothing.                   *)
C24_StaleDailyLoadDiscarded ==
    (LoadTasks(dayTasks) = 0 /\ dailyView.phase = "data")
        => dailyView.data.key = selectedDayIso

----------------------------------------------------------------------------
(* Claims about the drill-down modal *)

(* the first of the values that is a non-empty string (or a number but 0) *)
FirstNonEmpty(values) ==
    IF \E i \in DOMAIN values : JsTruthy(values[i])
    THEN values[CHOOSE i \in DOMAIN values :
                    JsTruthy(values[i]) /\ \A j \in 1..(i - 1) : ~JsTruthy(values[j])]
    ELSE JsNull

(* the first of the values that is neither null nor absent *)
FirstNonNull(values) ==
    LET present == { i \in DOMAIN values : values[i] \notin {JsNull, JsUndefined} }
    IN  IF present = {} THEN JsNull
        ELSE values[CHOOSE i \in present : \A j \in present : i <= j]

UsableDate(it) == FirstNonEmpty(<<it.date, it.work_date, it.day>>)
RawAmount(it) == FirstNonNull(<<it.amount, it.total_volume, it.value>>)

KeptRow(it) ==
    /\ UsableDate(it) # JsNull
    /\ RawAmount(it) # JsNull
    /\ NumberOf(RawAmount(it)).kind = "number"

(* C26: the normalization keeps a record exactly when it has a usable date *)
(* and an amount that coerces to a finite number, and the kept records are *)
(* output in the order of the input as {date, amount, unit, total_amount}: *)
(* the usable date, the coerced amount, the unit or "", the total or null. *)
C26_BreakdownNormalization ==
    applied = "normalizeBreakdown"
        => LET kept == { i \in DOMAIN items : KeptRow(items[i]) }
               nth == [n \in 1..Cardinality(kept) |->
                          CHOOSE i \in kept : Cardinality({ j \in kept : j < i }) = n - 1]
           IN  /\ Len(modalRows.rows) = Cardinality(kept)
               /\ \A n \in 1..Cardinality(kept) :
                     LET it == items[nth[n]]
                         row == modalRows.rows[n]
                     IN  /\ DOMAIN row = {"date", "amount", "unit", "total_amount"}
                         /\ row.date = UsableDate(it)
                         /\ row.amount = NumberOf(RawAmount(it))
                         /\ row.unit = IF it.unit.kind = "string" THEN it.unit
                                        ELSE Str(<<>>)
                         /\ row.total_amount = IF it.total_amount.kind = "number"
                                                THEN it.total_amount ELSE JsNull

(* a record without a date is dropped and a record whose amount is the     *)
(* string "12" under value is kept with amount 12                          *)
C26_Witness ==
    /\ applied = "normalizeBreakdown"
    /\ Len(items) = 2
    /\ ~KeptRow(items[1])
    /\ items[2].value = Str(<<"1", "2">>)
    /\ Len(modalRows.rows) = 1
    /\ modalRows.rows[1].amount = Num(12)
    /\ modalRows.rows[1].date = Day1

(* C29: once every openWorkModal call has had its response, the rows the  *)
(* modal lists are the breakdown of the work named in its title.           *)
C29_ModalRowsMatchTitle ==
    (modalTasks = <<>> /\ modal.visible /\ modalRows.work # None
        /\ ~modal.toast)
        => modalRows.work = modal.title

----------------------------------------------------------------------------
(* Claims about buildCategories *)

RECURSIVE SeqSum(_)
SeqSum(s) == IF s = <<>> THEN 0 ELSE Head(s) + SeqSum(Tail(s))

(* an absent amount counts as 0 *)
AmountOf(value) == IF value.kind = "number" THEN value.n ELSE 0

(* meaningful: planned or fact is neither absent nor zero *)
Meaningful(item) ==
    \/ item.planned_amount.kind = "number" /\ item.planned_amount.n # 0
    \/ item.fact_amount.kind = "number" /\ item.fact_amount.n # 0

(* C12: the planned amounts of the categories buildCategories returns add  *)
(* up to the planned amounts of the meaningful items of the list.          *)
C12_PlannedSumLaw ==
    applied = "buildCategories"
        => SeqSum([c \in DOMAIN builtCategories |-> builtCategories[c].planned])
           = SeqSum([i \in DOMAIN items |->
                        IF Meaningful(items[i]) THEN AmountOf(items[i].planned_amount)
                        ELSE 0])

(* C13: a meaningful item with an empty category label and no smeta to    *)
(* fall back to is not dropped: it is among the works of a category titled *)
(* with the fallback literal, and that category's totals are not zero.     *)
C13_EmptyLabelGoesToOther ==
    applied = "buildCategories"
        => \A i \in DOMAIN items :
              (Meaningful(items[i]) /\ trim(items[i].category) = <<>>
                    /\ trim(items[i].smeta) = <<>>)
                => \E c \in DOMAIN builtCategories :
                      /\ builtCategories[c].title = Prochee
                      /\ \E k \in DOMAIN builtCategories[c].works :
                             builtCategories[c].works[k] = items[i]
                      /\ (builtCategories[c].planned # 0
                              \/ builtCategories[c].fact # 0)

(* the item's raw category is one of the two off-schedule part keys *)
IsOffSchedulePart(item) ==
    /\ Meaningful(item)
    /\ toLowerCase(trim(item.category)) \in {Vneregl_ch_1, Vneregl_ch_2}

(* C14: no returned category has one of the two off-schedule part keys as  *)
(* its key, in any letter case; when the list has meaningful items with    *)
(* these raw keys, exactly one category has the merged key, every such     *)
(* item is among its works, and its planned total is the sum over these    *)
(* items and the items labelled with the merged key itself.                *)
C14_SynonymMerge ==
    applied = "buildCategories"
        => LET parts == { i \in DOMAIN items : IsOffSchedulePart(items[i]) }
               merged == { c \in DOMAIN builtCategories :
                              builtCategories[c].key = Vnereglament }
           IN  /\ \A c \in DOMAIN builtCategories :
                      toLowerCase(trim(builtCategories[c].key))
                          \notin {Vneregl_ch_1, Vneregl_ch_2}
               /\ parts # {}
                     => /\ Cardinality(merged) = 1
                        /\ \A c \in merged :
                              /\ \A i \in parts :
                                    \E k \in DOMAIN builtCategories[c].works :
                                        builtCategories[c].works[k] = items[i]
                              /\ builtCategories[c].planned
                                   = SeqSum([i \in DOMAIN items |->
                                        IF i \in parts
                                           \/ (Meaningful(items[i])
                                                 /\ trim(items[i].category) = Vnereglament)
                                        THEN AmountOf(items[i].planned_amount)
                                        ELSE 0])

(* both part keys, one of them in capital letters, in one category *)
C14_Witness ==
    /\ applied = "buildCategories"
    /\ Len(items) = 2
    /\ items[1].category = VNEREGL_CH_1
    /\ items[2].category = Vneregl_ch_2_padded
    /\ Len(builtCategories) = 1
    /\ builtCategories[1].key = Vnereglament
    /\ builtCategories[1].planned = 200

(* C15: the keys of the returned categories are case-normalized: no two    *)
(* categories have keys that are equal up to letter case.                  *)
C15_KeysCaseNormalized ==
    applied = "buildCategories"
        => \A c, d \in DOMAIN builtCategories :
              toLowerCase(builtCategories[c].key) = toLowerCase(builtCategories[d].key)
                  => c = d

(* item i of the list is added to the category with this key *)
Contributes(i, key) ==
    /\ Meaningful(items[i])
    /\ trim(OrElse(items[i].category, items[i].smeta)) # <<>>
    /\ toLowerCase(trim(OrElse(items[i].category, items[i].smeta))) # BezKategorii
    /\ resolveCategoryMeta(trim(OrElse(items[i].category, items[i].smeta)),
                           items[i].smeta).key = key

(* C16: planned, fact and delta of every returned category are the sums    *)
(* of planned_amount, fact_amount and calculateDelta over the items that   *)
(* contribute to it, an absent amount counting as 0; and delta equals      *)
(* fact - planned when none of these items has an explicit delta_amount.   *)
C16_CategorySums ==
    applied = "buildCategories"
        => \A c \in DOMAIN builtCategories :
              LET cat == builtCategories[c]
                  SumOver(f(_)) ==
                      SeqSum([i \in DOMAIN items |->
                                 IF Contributes(i, cat.key) THEN f(items[i]) ELSE 0])
                  Planned(item) == AmountOf(item.planned_amount)
                  Fact(item) == AmountOf(item.fact_amount)
              IN  /\ cat.planned = SumOver(Planned)
                  /\ cat.fact = SumOver(Fact)
                  /\ cat.delta = SumOver(calculateDelta)
                  /\ (\A i \in DOMAIN items :
                          Contributes(i, cat.key)
                              => items[i].delta_amount.kind # "number")
                        => cat.delta = cat.fact - cat.planned

(* two "Paving" items 1000/800 and 500/700: planned 1500, fact 1500, delta 0 *)
C16_Witness ==
    /\ applied = "buildCategories"
    /\ Len(items) = 2
    /\ items[1].category = Paving /\ items[2].category = Paving
    /\ items[1].planned_amount = Num(1000) /\ items[1].fact_amount = Num(800)
    /\ items[2].planned_amount = Num(500) /\ items[2].fact_amount = Num(700)
    /\ ~items[2].category_plan_only
    /\ Len(builtCategories) = 1
    /\ builtCategories[1].planned = 1500
    /\ builtCategories[1].fact = 1500
    /\ builtCategories[1].delta = 0

(* the items that contribute to the category key and are not plan-only,   *)
(* in the order of the list                                                *)
ListedWorks(key) ==
    LET idx == { i \in DOMAIN items :
                    Contributes(i, key) /\ ~items[i].category_plan_only }
        nth == [n \in 1..Cardinality(idx) |->
                   CHOOSE i \in idx : Cardinality({ j \in idx : j < i }) = n - 1]
    IN  [n \in 1..Cardinality(idx) |-> items[nth[n]]]

(* C25: a plan-only item is in no category's works, while its planned,     *)
(* fact and delta are part of the totals of its category (the totals less  *)
(* the amounts of the listed works are the amounts of the plan-only items);*)
(* every other item that buildCategories includes is listed once in the    *)
(* works of its category, in the order of the list.                        *)
C25_PlanOnlyCountsButIsNotListed ==
    applied = "buildCategories"
        => \A c \in DOMAIN builtCategories :
              LET cat == builtCategories[c]
                  Hidden(f(_)) ==
                      SeqSum([i \in DOMAIN items |->
                                 IF Contributes(i, cat.key) /\ items[i].category_plan_only
                                 THEN f(items[i]) ELSE 0])
                  Listed(f(_)) ==
                      SeqSum([w \in DOMAIN cat.works |-> f(cat.works[w])])
                  Planned(item) == AmountOf(item.planned_amount)
                  Fact(item) == AmountOf(item.fact_amount)
              IN  /\ \A w \in DOMAIN cat.works : ~cat.works[w].category_plan_only
                  /\ cat.works = ListedWorks(cat.key)
                  /\ cat.planned - Listed(Planned) = Hidden(Planned)
                  /\ cat.fact - Listed(Fact) = Hidden(Fact)
                  /\ cat.delta - Listed(calculateDelta) = Hidden(calculateDelta)

(* "Paving" 1000/800 listed and "Paving" 500/700 plan-only: one work, and  *)
(* planned 1500, fact 1500                                                 *)
C25_Witness ==
    /\ applied = "buildCategories"
    /\ Len(items) = 2
    /\ items[1].planned_amount = Num(1000) /\ ~items[1].category_plan_only
    /\ items[2].planned_amount = Num(500) /\ items[2].category_plan_only
    /\ Len(builtCategories) = 1
    /\ builtCategories[1].works = <<items[1]>>
    /\ builtCategories[1].planned = 1500
    /\ builtCategories[1].fact = 1500

----------------------------------------------------------------------------
(* Claims about calculateMetrics and calculateContractMetrics *)

(* the items of the report that carry the amount *)
PlannedSum == SeqSum([i \in DOMAIN report.items |->
                         AmountOf(report.items[i].planned_amount)])
FactSum == SeqSum([i \in DOMAIN report.items |->
                      AmountOf(report.items[i].fact_amount)])

(* the effective amounts: the summary's when present, else from the items *)
EffectivePlanned ==
    IF report.summary.planned_amount.kind = "number"
    THEN report.summary.planned_amount
    ELSE IF \E i \in DOMAIN report.items :
                report.items[i].planned_amount.kind = "number"
    THEN Num(PlannedSum) ELSE JsNull

EffectiveFact ==
    IF report.summary.fact_amount.kind = "number"
    THEN report.summary.fact_amount
    ELSE IF \E i \in DOMAIN report.items :
                report.items[i].fact_amount.kind = "number"
    THEN Num(FactSum) ELSE JsNull

(* C17: calculateMetrics never divides by zero.  planned and fact are the  *)
(* summary's values when present, else the sums over the items (null when  *)
(* no item has one); completion is the summary's completion_pct when       *)
(* present, else null when the effective planned amount is zero or absent, *)
(* else fact / planned; delta is the summary's delta_amount when present,  *)
(* else fact - planned (null when both are absent).                        *)
C17_MetricsNeverDivideByZero ==
    (applied = "calculateMetrics" /\ ~report.isNull)
        => /\ ~metrics.isNull
           /\ metrics.completion.kind # "not-finite"
           /\ metrics.averageDailyRevenue.kind # "not-finite"
           /\ metrics.planned = EffectivePlanned
           /\ metrics.fact = EffectiveFact
           /\ metrics.completion =
                 IF report.summary.completion_pct.kind = "number"
                 THEN report.summary.completion_pct
                 ELSE IF EffectivePlanned = JsNull \/ EffectivePlanned.n = 0
                 THEN NullRatio
                 ELSE Ratio(AmountOf(EffectiveFact), EffectivePlanned.n)
           /\ metrics.delta =
                 IF report.summary.delta_amount.kind = "number"
                 THEN report.summary.delta_amount
                 ELSE IF EffectivePlanned = JsNull /\ EffectiveFact = JsNull
                 THEN JsNull
                 ELSE Num(AmountOf(EffectiveFact) - AmountOf(EffectivePlanned))

(* planned is zero, from the summary or from the items, no completion_pct: *)
(* completion is null although fact is not zero                            *)
C17_Witness ==
    /\ applied = "calculateMetrics"
    /\ report.summary.completion_pct = NullRatio
    /\ metrics.planned = Num(0)
    /\ metrics.fact.kind = "number" /\ metrics.fact.n # 0
    /\ metrics.completion = NullRatio

(* C18: calculateContractMetrics returns null when the report has no       *)
(* summary; otherwise its completion is the summary's                      *)
(* contract_completion_pct when present, else null when contract_amount is *)
(* zero or absent, else contract_executed / contract_amount.               *)
C18_ContractMetrics ==
    applied = "calculateContractMetrics"
        => IF report.isNull \/ ~report.hasSummary
           THEN contractMetrics.isNull
           ELSE /\ ~contractMetrics.isNull
                /\ contractMetrics.completion.kind # "not-finite"
                /\ contractMetrics.completion =
                      IF report.summary.contract_completion_pct.kind = "number"
                      THEN report.summary.contract_completion_pct
                      ELSE IF report.summary.contract_amount.kind # "number"
                              \/ report.summary.contract_amount.n = 0
                      THEN NullRatio
                      ELSE Ratio(AmountOf(report.summary.contract_executed),
                                 report.summary.contract_amount.n)

(* 250000 / 1000000 = 0.25 *)
C18_Witness ==
    /\ applied = "calculateContractMetrics"
    /\ report.summary.contract_amount = Num(1000000)
    /\ report.summary.contract_executed = Num(250000)
    /\ report.summary.contract_completion_pct = NullRatio
    /\ SameNumber(contractMetrics.completion, Ratio(1, 4))

----------------------------------------------------------------------------
(* Claims about sortWorks *)

(* the sorted list has the works of the list given, each as often *)
SameWorks ==
    /\ Len(sortedWorks) = Len(items)
    /\ \A w \in Works :
          Cardinality({ k \in DOMAIN sortedWorks : sortedWorks[k] = w })
              = Cardinality({ i \in DOMAIN items : items[i] = w })

(* C19: with the delta column the sorted list holds the works given, and   *)
(* for every adjacent pair (a, b) of it: a non-negative delta is never     *)
(* followed by a negative one; of two negative deltas the more negative    *)
(* comes first; of two non-negative deltas the larger comes first.         *)
C19_DeltaSortLaw ==
    (applied = "sortWorks" /\ workSort = "delta")
        => /\ SameWorks
           /\ \A k \in 1..(Len(sortedWorks) - 1) :
                 LET deltaA == calculateDelta(sortedWorks[k])
                     deltaB == calculateDelta(sortedWorks[k + 1])
                 IN  /\ ~(deltaA >= 0 /\ deltaB < 0)
                     /\ (deltaA < 0 /\ deltaB < 0) => deltaA <= deltaB
                     /\ (deltaA >= 0 /\ deltaB >= 0) => deltaA >= deltaB

(* deltas 500, -300 and -10 given in that order are shown as -300, -10, 500 *)
C19_Witness ==
    /\ applied = "sortWorks" /\ workSort = "delta"
    /\ Len(items) = 3
    /\ calculateDelta(items[1]) = 500
    /\ calculateDelta(items[2]) = -300
    /\ calculateDelta(items[3]) = -10
    /\ sortedWorks = <<items[2], items[3], items[1]>>

(* the amount of the sort column, planned or fact *)
ColumnAmount(item) ==
    IF workSort = "fact" THEN item.fact_amount ELSE item.planned_amount

(* C20: with the planned (fact) column, for every adjacent pair (a, b) of  *)
(* the sorted list: when a has no planned_amount (fact_amount) b has none  *)
(* either, and when both have one, a's is not less than b's.               *)
C20_ColumnSortMissingLast ==
    (applied = "sortWorks" /\ workSort \in {"planned", "fact"})
        => \A k \in 1..(Len(sortedWorks) - 1) :
              LET a == ColumnAmount(sortedWorks[k])
                  b == ColumnAmount(sortedWorks[k + 1])
              IN  /\ a.kind # "number" => b.kind # "number"
                  /\ (a.kind = "number" /\ b.kind = "number") => a.n >= b.n

----------------------------------------------------------------------------
(* Claims about withRetry *)

FailedRetryable(i) ==
    ~retryHist[i].ok /\ isRetryableError(retryHist[i].error)

FailedFatal(i) ==
    ~retryHist[i].ok /\ ~isRetryableError(retryHist[i].error)

(* C6: while the attempts so far, no more than the budget, all failed with *)
(* retryable errors the call goes on to the next attempt; and when attempt *)
(* k + 1 then succeeds the call returns that result after exactly k + 1    *)
(* requests.                                                               *)
C6_SuccessAfterRetries ==
    \A k \in 0..retry.retries :
        /\ (Len(retryHist) = k /\ \A i \in 1..k : FailedRetryable(i))
              => /\ retry.pc \in {"wait", "request"}
                 /\ retry.requests = IF retry.pc = "wait" THEN k ELSE k + 1
        /\ (Len(retryHist) = k + 1 /\ (\A i \in 1..k : FailedRetryable(i))
                /\ retryHist[k + 1].ok)
              => /\ retry.pc = "returned"
                 /\ retry.value = retryHist[k + 1].value
                 /\ retry.requests = k + 1

(* 503, 503, 200 with retries = 2 *)
C6_Witness ==
    /\ retry.retries = 2
    /\ Len(retryHist) = 3
    /\ retryHist[1].error = buildHttpError(503)
    /\ retryHist[2].error = buildHttpError(503)
    /\ retryHist[3].ok
    /\ retry.pc = "returned" /\ retry.requests = 3

RetryDone == retry.pc \in {"returned", "thrown"}

(* C7: withRetry makes at most retries + 1 attempts and terminates; when   *)
(* no attempt succeeded it throws the error of the last attempt.           *)
C7_BoundedRetry ==
    /\ [](/\ retry.requests <= retry.retries + 1
          /\ Len(retryHist) <= retry.retries + 1
          /\ (RetryDone /\ \A i \in DOMAIN retryHist : ~retryHist[i].ok)
                => /\ retry.pc = "thrown"
                   /\ retry.lastError = retryHist[Len(retryHist)].error)
    /\ <>RetryDone

C7_Witness ==
    /\ retry.retries = MaxRetries
    /\ retry.pc = "thrown"
    /\ retry.requests = MaxRetries + 1
    /\ Len(retryHist) = MaxRetries + 1
    /\ retry.lastError = retryHist[Len(retryHist)].error

(* C8: an attempt that fails with an error classified as not retryable is  *)
(* the last one: withRetry throws that error without waiting, whatever     *)
(* budget is left.                                                         *)
C8_FatalStopsRetry ==
    \A i \in DOMAIN retryHist :
        FailedFatal(i) => /\ i = Len(retryHist)
                          /\ retry.pc = "thrown"
                          /\ retry.lastError = retryHist[i].error
                          /\ retry.requests = i
                          /\ retry.waits = i - 1

C8_Witness ==
    /\ retry.retries = MaxRetries
    /\ Len(retryHist) = 2
    /\ FailedRetryable(1) /\ FailedFatal(2)
    /\ retry.pc = "thrown" /\ retry.requests = 2

----------------------------------------------------------------------------
(* Claims about the classification of errors *)

(* C9 as stated: a non-2xx status is retryable iff it is 408, 425, 429 or  *)
(* a 5xx status other than 501.                                            *)
C9_RetryableIffTransientOr5xx ==
    ~classified.transport /\ classified.error # NoError
        => (classified.retryable
              <=> classified.error.status \in {408, 425, 429} \cup ((500..599) \ {501}))

(* C9 amended: a non-2xx status is retryable iff it is one of 408, 425,    *)
(* 429, 500, 502, 503, 504.                                                *)
C9_RetryableIffListed ==
    ~classified.transport /\ classified.error # NoError
        => (classified.retryable
              <=> classified.error.status \in {408, 425, 429, 500, 502, 503, 504})

C9_Witness ==
    /\ ~classified.transport
    /\ classified.error.status = 505
    /\ ~classified.retryable

(* C10: every transport-level failure is classified as retryable, whatever *)
(* its name and message.                                                   *)
C10_TransportRetryable ==
    classified.transport => classified.retryable

====
